---- MODULE Spec2Model ----
(***************************************************************************)
(* The example agents of learn-summoner (learn/example_2 .. example_14):   *)
(* RECEIVE hooks, state upload/download, receive handlers, gated senders   *)
(* and the SEND hook, driven by the flow engine of the Summoner client.    *)
(*                                                                         *)
(* Text is a sequence of tokens: "ChangeMe_Agent_10" is                    *)
(* <<"ChangeMe_Agent_", "1", "0">>.  The tokens form a prefix-free code,   *)
(* so slicing, prefix tests and splitting on a token are what Python does  *)
(* on the characters.                                                      *)
(***************************************************************************)
EXTENDS Naturals, Sequences, FiniteSets

VARIABLES
  ex,             \* which example agent runs (learn/example_<ex>/agent.py)
  listening,      \* global `listening` (examples 13-14)
  state,          \* global `state` (examples 2-9)
  relations,      \* global `relations`: peer id -> state (examples 10-14)
  outside_view,   \* global `outside_view`: peer id -> state (examples 12-14)
  contact_list,   \* one-shot outbox of register --> contact (examples 11-14)
  ban_list,       \* one-shot outbox of register --> ban
  friend_list,    \* one-shot outbox of contact --> friend
  to_them_list,   \* outbox of the reputation sender (examples 12-14)
  decision_cache, \* `_decision_cache` (example 14): cache key -> move/stay
  travels,        \* number of client.travel_to calls made
  pc,             \* where the engine is in the receive cycle
  cur,            \* the envelope of the cycle
  payload,        \* the payload as the hook chain has it so far
  hookLog,        \* the RECEIVE stages run for `cur`: fn, input, output
  logs,           \* the client.logger lines written for `cur`
  snapshot,       \* what upload_states returned for `cur`
  uploads,        \* the upload_states calls made since `cur` passed the hooks
  handlerLog,     \* the receive handlers invoked for `cur` and their results
  fired,          \* the event the dispatch of `cur` reduced to
  candidates,     \* what the engine hands to download_states for `cur`
  senderLog,      \* the gated senders run / skipped in this cycle
  sent,           \* the payloads the last sender run put on the wire
  failures,       \* failures reported to the observability collaborator
  pre,            \* the protocol state when `cur` arrived
  nmsgs,          \* envelopes delivered so far
  periodic,       \* the last run of a periodic sender: route, mode, batch
  dl,             \* a download_states call in progress: input, state before
  state_lock,     \* global `state_lock`: held, by which task, and the tasks
                  \* waiting in order
  at,             \* the instruction each task of the event loop is at
  run,            \* the gated sender's run in progress: list at start, batch,
                  \* failure met, appends seen at its start
  returned,       \* the finished runs of the gated sender
  pending,        \* Move events whose gated send has not been started yet
  appended,       \* the ids the receive handlers appended to contact_list
  moved,         \* the handler invocations that returned Move(ok), in order
  writes,        \* the writes to shared state made so far: variable, lock held by the writer
  rmw,           \* read-modify-writes in progress per task, and those another task cut into
  dashboard,      \* example 14: the published snapshot, its lock, the refresh
                  \* and the GET in progress, what was served
  deciding        \* example 14: the decide_move calls in flight and the
                  \* decisions returned, in order

vars == <<ex, listening, state, relations, outside_view, contact_list,
          ban_list, friend_list, to_them_list, decision_cache, travels,
          pc, cur, payload, hookLog, logs, snapshot, uploads, handlerLog,
          fired, candidates, senderLog, sent, failures, pre, nmsgs,
          periodic, dl, state_lock, at, run, returned, pending, appended,
          moved,
          writes,
          rmw,
          dashboard,
          deciding>>

\* the event loop's tasks and the lock they share
tasking == <<state_lock, at, run, returned, pending, appended,
            moved,
            writes,
            rmw,
            dashboard,
            deciding>>

-----------------------------------------------------------------------------
(* Bounds of the exploration                                               *)

MaxMsgs == 2

\* upload_states calls the engine makes in a row for one message
MaxUploads == 2

-----------------------------------------------------------------------------
(* Python values                                                           *)

\* None, as a value no text equals
None == <<"#None">>

Text(tok) == <<tok>>

Agent(digits) == <<"ChangeMe_Agent_">> \o digits

\* msg[:n] on text
Slice(s, n) == IF n >= Len(s) THEN s ELSE SubSeq(s, 1, n)

\* payload kinds: the transport envelope, a text, a dict, None
NoPayload == [t |-> "none"]
PStr(s) == [t |-> "str", s |-> s]
PDict(d) == [t |-> "dict", d |-> d]
\* an envelope that is a dict, with its keys; one that is not a dict is a text
PEnv(keys, content) == [t |-> "env", keys |-> keys, content |-> content]

\* isinstance(p, dict): an envelope dict, or a dict content
IsDict(p) == p.t \in {"dict", "env"}

\* key in p, for a dict p
HasKey(p, k) == IF p.t = "dict" THEN k \in DOMAIN p.d ELSE k \in p.keys

\* p.get(k, default) of a dict p with text values (an envelope holds only
\* remote_addr and content, so every other key gives the default)
PyGet(p, k, default) ==
  IF p.t = "dict" /\ k \in DOMAIN p.d THEN p.d[k] ELSE default

\* a stored state is the text the agent wrote or a Node the engine handed back
StrV(name) == [k |-> "str", name |-> name]
NodeV(name) == [k |-> "node", name |-> name]
\* str(x)
Str(x) == x.name

-----------------------------------------------------------------------------
(* The agents' identifiers and allowlists                                  *)

\* example 1 registers no upload_states and is left out
Examples == 2..14

AGENT_ID(e) ==
  CASE e = 2 -> Agent(<<"2">>)
    [] e = 3 -> Agent(<<"3">>)
    [] e = 4 -> Agent(<<"4">>)
    [] e = 5 -> Agent(<<"5">>)
    [] e = 6 -> Agent(<<"6">>)
    [] e = 7 -> Agent(<<"7">>)
    [] e = 8 -> Agent(<<"8">>)
    [] e = 9 -> Agent(<<"9">>)
    [] e = 10 -> Agent(<<"1", "0", "_", "7">>)
    [] e = 11 -> Agent(<<"1", "1", "_", "7">>)
    [] e = 12 -> Agent(<<"1", "2", "_", "7">>)
    [] e = 13 -> Agent(<<"1", "3", "_", "7">>)
    [] OTHER -> Agent(<<"1", "4", "_", "7">>)

\* the list literal of check_sender, in source order
Allowlist(e) ==
  CASE e = 6 -> <<Agent(<<"6">>)>>
    [] e = 7 -> <<Agent(<<"6">>), Agent(<<"7">>)>>
    [] e = 8 -> <<Agent(<<"6">>), Agent(<<"7">>), Agent(<<"8">>)>>
    [] e = 9 -> <<Agent(<<"6">>), Agent(<<"7">>), Agent(<<"8">>), Agent(<<"9">>)>>
    [] e = 10 -> <<Agent(<<"6">>), Agent(<<"7">>), Agent(<<"8">>), Agent(<<"9">>),
                   Agent(<<"1", "0">>)>>
    [] e = 11 -> <<Agent(<<"6">>), Agent(<<"7">>), Agent(<<"8">>), Agent(<<"9">>),
                   Agent(<<"1", "0">>), Agent(<<"1", "1">>)>>
    [] e = 12 -> <<Agent(<<"6">>), Agent(<<"7">>), Agent(<<"8">>), Agent(<<"9">>),
                   Agent(<<"1", "0">>), Agent(<<"1", "1">>), Agent(<<"1", "2">>)>>
    [] e = 13 -> <<Agent(<<"6">>), Agent(<<"7">>), Agent(<<"8">>), Agent(<<"9">>),
                   Agent(<<"1", "0">>), Agent(<<"1", "1">>), Agent(<<"1", "2">>),
                   Agent(<<"1", "3">>)>>
    [] e = 14 -> <<Agent(<<"6">>), Agent(<<"7">>), Agent(<<"8">>), Agent(<<"9">>),
                   Agent(<<"1", "0">>), Agent(<<"1", "1">>), Agent(<<"1", "2">>),
                   Agent(<<"1", "3">>), Agent(<<"1", "4">>)>>
    [] OTHER -> <<>>

TRAVEL == Text("/travel")

-----------------------------------------------------------------------------
(* RECEIVE hooks.  A stage gives [ret, raised, log]: the value returned    *)
(* (NoPayload for None), whether it raised, the logger lines it wrote.     *)

Ret(p, log) == [ret |-> p, raised |-> FALSE, log |-> log]
Raise(log) == [ret |-> NoPayload, raised |-> TRUE, log |-> log]

\* the control token let through whatever the mode
IsControlAnyMode(e, content, lis) ==
  e >= 13 /\ content.t = "str" /\ content.s = TRAVEL

\* content == "/travel" and listening (examples 13-14)
IsControl(e, content, lis) ==
  e >= 13 /\ content.t = "str" /\ content.s = TRAVEL /\ lis

\* the filter reading content.get("to"): a missing `to` counts as None
ToRejectedDefaultNone(e, content) ==
  e >= 7 /\ PyGet(content, "to", None) \notin {None, AGENT_ID(e)}

\* the filter with its test inverted
ToRejectedInverted(e, content) ==
  e >= 7 /\ PyGet(content, "to", <<>>) \in {None, AGENT_ID(e)}

\* the `to` filter of examples 7-14: content.get("to", "") not in [None, AGENT_ID]
ToRejected(e, content) ==
  e >= 7 /\ PyGet(content, "to", <<>>) \notin {None, AGENT_ID(e)}

\* validate without its check of content.from
validateNoFromCheck(e, msg, lis) ==
  IF ~(IsDict(msg) /\ HasKey(msg, "remote_addr") /\ HasKey(msg, "content"))
  THEN Ret(NoPayload, <<>>)
  ELSE LET content == msg.content IN
    IF IsControl(e, content, lis)
    THEN Ret(content, <<"travel instruction received">>)
    ELSE IF content.t # "dict" THEN Ret(NoPayload, <<>>)
    ELSE IF ToRejected(e, content) THEN Ret(NoPayload, <<>>)
    ELSE Ret(content, <<>>)

validate(e, msg, lis) ==
  IF ~(IsDict(msg) /\ HasKey(msg, "remote_addr") /\ HasKey(msg, "content"))
  THEN Ret(NoPayload, <<>>)
  ELSE LET content == msg.content IN
    IF IsControl(e, content, lis)
    THEN Ret(content, <<"travel instruction received">>)
    ELSE IF content.t # "dict" THEN Ret(NoPayload, <<>>)
    ELSE IF ToRejected(e, content) THEN Ret(NoPayload, <<>>)
    ELSE IF ~HasKey(content, "from")
    THEN Ret(NoPayload, <<"missing content.from">>)
    ELSE Ret(content, <<>>)

\* content.get("from") in [...] (examples 6-9)
ExactMatch(e, content) ==
  \E i \in 1..Len(Allowlist(e)) : PyGet(content, "from", None) = Allowlist(e)[i]

\* any(s == content.get("from", "")[:len(s)] for s in [...]) (examples 10-14)
PrefixMatch(e, content) ==
  LET from == PyGet(content, "from", <<>>) IN
  \E i \in 1..Len(Allowlist(e)) :
     Allowlist(e)[i] = Slice(from, Len(Allowlist(e)[i]))

check_sender(e, content, lis) ==
  IF IsControl(e, content, lis)
  THEN Ret(content, <<"travel instruction received">>)
  ELSE IF ~IsDict(content) THEN Raise(<<>>)          \* text has no .get
  ELSE IF e <= 9
  THEN IF ExactMatch(e, content) THEN Ret(content, <<>>)
       ELSE Ret(NoPayload, <<"reject">>)
  ELSE IF PyGet(content, "from", <<>>) = None THEN Raise(<<>>)  \* None[:n]
  ELSE IF PrefixMatch(e, content) THEN Ret(content, <<>>)
  ELSE Ret(NoPayload, <<"reject">>)

\* the registrations with the two priorities exchanged
ReceiveHooksSwapped(e) ==
  IF e <= 4 THEN <<>>
  ELSE IF e = 5 THEN <<[priority |-> 0, fn |-> "validate"]>>
  ELSE <<[priority |-> 1, fn |-> "validate"],
         [priority |-> 0, fn |-> "check_sender"]>>

\* the @client.hook(direction=Direction.RECEIVE, priority=...) registrations
ReceiveHooks(e) ==
  IF e <= 4 THEN <<>>
  ELSE IF e = 5 THEN <<[priority |-> 0, fn |-> "validate"]>>
  ELSE <<[priority |-> 0, fn |-> "validate"],
         [priority |-> 1, fn |-> "check_sender"]>>

RunStage(fn, e, p, lis) ==
  IF fn = "validate" THEN validate(e, p, lis) ELSE check_sender(e, p, lis)

-----------------------------------------------------------------------------
(* upload_states.  Gives [ret, raised, relations, outside_view].           *)

NoSnapshot == [t |-> "none"]
Single(v) == [t |-> "single", v |-> v]
Keyed(m) == [t |-> "map", m |-> m]

EmptyMap == [k \in {} |-> StrV("")]

\* d[k] = v written where d.setdefault(k, v) was meant
SetDefaultOverwrites(d, k, v) ==
  [x \in DOMAIN d \cup {k} |-> IF x = k THEN v ELSE d[x]]

\* d.setdefault(k, v)
SetDefault(d, k, v) ==
  IF k \in DOMAIN d THEN d ELSE [x \in DOMAIN d \cup {k} |-> IF x = k THEN v ELSE d[x]]

\* d[k] = v
Put(d, k, v) == [x \in DOMAIN d \cup {k} |-> IF x = k THEN v ELSE d[x]]

TO_ME == Text("to_me:")
TO_THEM == Text("to_them:")

\* the default states of upload_states
DefaultRelation == StrV("register")
DefaultOutside == StrV("neutral")

\* `if not sender_id`: None and "" are falsy
Falsy(v) == v = None \/ v = <<>>

\* the defaults read with .get() and never stored
UploadPeerNotStored(e, sender_id, rel, out) ==
  LET r == SetDefault(rel, sender_id, DefaultRelation)
      o == SetDefault(out, sender_id, DefaultOutside) IN
  IF e <= 11
  THEN [ret |-> Keyed([k \in {sender_id} |-> r[sender_id]]), raised |-> FALSE,
        relations |-> rel, outside_view |-> out]
  ELSE [ret |-> Keyed([k \in {TO_ME \o sender_id, TO_THEM \o sender_id} |->
                         IF k = TO_ME \o sender_id THEN r[sender_id]
                         ELSE o[sender_id]]),
        raised |-> FALSE, relations |-> rel, outside_view |-> out]

\* the snapshot read with .get(sender_id, "") before the defaults are stored
UploadPeerStale(e, sender_id, rel, out) ==
  LET r == SetDefault(rel, sender_id, DefaultRelation)
      o == SetDefault(out, sender_id, DefaultOutside)
      old_r == SetDefault(rel, sender_id, StrV(""))
      old_o == SetDefault(out, sender_id, StrV("")) IN
  IF e <= 11
  THEN [ret |-> Keyed([k \in {sender_id} |-> old_r[sender_id]]), raised |-> FALSE,
        relations |-> r, outside_view |-> out]
  ELSE [ret |-> Keyed([k \in {TO_ME \o sender_id, TO_THEM \o sender_id} |->
                         IF k = TO_ME \o sender_id THEN old_r[sender_id]
                         ELSE old_o[sender_id]]),
        raised |-> FALSE, relations |-> r, outside_view |-> o]

\* the part of upload_states that follows `if not sender_id: return`: the
\* defaults are stored and the sender's states are returned
UploadPeer(e, sender_id, rel, out) ==
  IF e <= 11
  THEN LET r == SetDefault(rel, sender_id, DefaultRelation) IN
       [ret |-> Keyed([k \in {sender_id} |-> r[sender_id]]), raised |-> FALSE,
        relations |-> r, outside_view |-> out]
  ELSE LET r == SetDefault(rel, sender_id, DefaultRelation)
           o == SetDefault(out, sender_id, DefaultOutside) IN
       [ret |-> Keyed([k \in {TO_ME \o sender_id, TO_THEM \o sender_id} |->
                         IF k = TO_ME \o sender_id THEN r[sender_id]
                         ELSE o[sender_id]]),
        raised |-> FALSE, relations |-> r, outside_view |-> o]

\* upload_states without its `if listening` branch
upload_statesAnyMode(e, msg, st, rel, out, lis) ==
  IF e <= 9
  THEN [ret |-> Single(st), raised |-> FALSE, relations |-> rel, outside_view |-> out]
  ELSE IF ~IsDict(msg)
  THEN [ret |-> NoSnapshot, raised |-> TRUE, relations |-> rel, outside_view |-> out]
  ELSE LET sender_id == PyGet(msg, "from", None) IN
    IF Falsy(sender_id)
    THEN [ret |-> NoSnapshot, raised |-> FALSE, relations |-> rel, outside_view |-> out]
    ELSE UploadPeer(e, sender_id, rel, out)

upload_states(e, msg, st, rel, out, lis) ==
  IF e <= 9
  THEN [ret |-> Single(st), raised |-> FALSE, relations |-> rel, outside_view |-> out]
  ELSE IF e >= 13 /\ lis
  THEN [ret |-> Single(StrV("listen")), raised |-> FALSE,
        relations |-> rel, outside_view |-> out]
  ELSE IF ~IsDict(msg)
  THEN [ret |-> NoSnapshot, raised |-> TRUE, relations |-> rel, outside_view |-> out]
  ELSE LET sender_id == PyGet(msg, "from", None) IN
    IF Falsy(sender_id)
    THEN [ret |-> NoSnapshot, raised |-> FALSE, relations |-> rel, outside_view |-> out]
    ELSE UploadPeer(e, sender_id, rel, out)

-----------------------------------------------------------------------------
(* Receive handlers.  The globals a handler may write travel in a record   *)
(* M = [contact_list, ban_list, friend_list, to_them_list, listening,      *)
(* decision_cache, travels]; a handler gives [M, ev, raised].              *)

NoEvent == [action |-> "NONE", trigger |-> "none"]
Test(trigger) == [action |-> "TEST", trigger |-> trigger]
Move(trigger) == [action |-> "MOVE", trigger |-> trigger]
Stay(trigger) == [action |-> "STAY", trigger |-> trigger]

Returns(M, ev) == [M |-> M, ev |-> ev, raised |-> FALSE]
Raises(M) == [M |-> M, ev |-> NoEvent, raised |-> TRUE]

\* msg[k] succeeds
HasItem(msg, k) == msg.t = "dict" /\ k \in DOMAIN msg.d

HELLO == Text("Hello")
DISLIKE == Text("I don't like you")
LIKE == Text("I like you")
MY_CONTACT == Text("You are my contact")
BANNED == Text("You are banned")
MY_FRIEND == Text("You are my friend")

\* _msg_text(msg) for a message whose "message" is text or missing
msg_text(msg) == IF msg.t = "dict" THEN PyGet(msg, "message", <<>>) ELSE msg.s

\* _cache_key(kind, msg): f"{kind}|{from}|{text}"
cache_key(kind, msg) ==
  Text(kind) \o Text("|") \o PyGet(msg, "from", <<>>) \o Text("|") \o msg_text(msg)

\* decide_move: the cached decision when there is one, else the answer of the
\* policy (any of move / stay: the model's word, or the fallback's), cached
decide_move(kind, msg, M, answer) ==
  LET key == cache_key(kind, msg) IN
  IF key \in DOMAIN M.decision_cache
  THEN [decision |-> M.decision_cache[key], M |-> M]
  ELSE [decision |-> answer,
        M |-> [M EXCEPT !.decision_cache =
                 [x \in DOMAIN M.decision_cache \cup {key} |->
                    IF x = key THEN answer ELSE M.decision_cache[x]]]]

\* the node handlers on_register / on_contact / on_friend / on_ban
on_node(e, msg, M, orc) == Returns(M, Test("ok"))

\* the body without its comparison of msg["message"] with the phrase
EdgeOnAnyPhrase(e, msg, M, phrase, box, entry) ==
  IF ~HasItem(msg, "message") THEN Raises(M)
  ELSE IF e <= 10 THEN Returns(M, Move("ok"))
  ELSE IF ~HasItem(msg, "from") THEN Raises(M)
  ELSE Returns([M EXCEPT ![box] = Append(@, entry)], Move("ok"))

\* the body reading the phrase with msg.get("message"): nothing raised
EdgeOnPhraseTolerant(e, msg, M, phrase, box, entry) ==
  IF ~HasItem(msg, "message") THEN Returns(M, NoEvent)
  ELSE IF msg.d["message"] # phrase THEN Returns(M, NoEvent)
  ELSE IF e <= 10 THEN Returns(M, Move("ok"))
  ELSE IF ~HasItem(msg, "from") THEN Raises(M)
  ELSE Returns([M EXCEPT ![box] = Append(@, entry)], Move("ok"))

\* the body shared by the edge handlers of examples 8-13:
\* if msg["message"] == phrase: [append entry to an outbox;] return Move(ok)
EdgeOnPhrase(e, msg, M, phrase, box, entry) ==
  IF ~HasItem(msg, "message") THEN Raises(M)
  ELSE IF msg.d["message"] # phrase THEN Returns(M, NoEvent)
  ELSE IF e <= 10 THEN Returns(M, Move("ok"))
  ELSE IF ~HasItem(msg, "from") THEN Raises(M)
  ELSE Returns([M EXCEPT ![box] = Append(@, entry)], Move("ok"))

\* the body shared by the decide_move handlers of example 14
EdgeOnDecision(kind, msg, M, orc, box, entry) ==
  LET d == decide_move(kind, msg, M, orc[kind]) IN
  IF d.decision # "move" THEN Returns(d.M, NoEvent)
  ELSE IF ~HasItem(msg, "from") THEN Raises(d.M)
  ELSE Returns([d.M EXCEPT ![box] = Append(@, entry)], Move("ok"))

From(msg) == PyGet(msg, "from", None)
ToThem(msg, status) == [to |-> From(msg), status |-> status]

on_register_contact(e, msg, M, orc) ==
  IF e = 14
  THEN EdgeOnDecision("register->contact", msg, M, orc, "contact_list", From(msg))
  ELSE EdgeOnPhrase(e, msg, M, HELLO, "contact_list", From(msg))

on_register_ban(e, msg, M, orc) ==
  IF e = 14
  THEN EdgeOnDecision("register->ban", msg, M, orc, "ban_list", From(msg))
  ELSE EdgeOnPhrase(e, msg, M, DISLIKE, "ban_list", From(msg))

on_contact_friend(e, msg, M, orc) ==
  IF e = 14
  THEN EdgeOnDecision("contact->friend", msg, M, orc, "friend_list", From(msg))
  ELSE EdgeOnPhrase(e, msg, M, LIKE, "friend_list", From(msg))

\* infer_flag_from_msg answers orc[which]; Move when it is the wanted flag
EdgeOnFlag(which, wanted, msg, M, orc) ==
  IF orc[which] # wanted THEN Returns(M, NoEvent)
  ELSE IF ~HasItem(msg, "from") THEN Raises(M)
  ELSE Returns([M EXCEPT !.to_them_list = Append(@, ToThem(msg, wanted))],
               Move("ok"))

on_neutral_good(e, msg, M, orc) ==
  IF e = 14 THEN EdgeOnFlag("flag1", "good", msg, M, orc)
  ELSE EdgeOnPhrase(e, msg, M, MY_CONTACT, "to_them_list", ToThem(msg, "good"))

on_neutral_bad(e, msg, M, orc) ==
  IF e = 14 THEN EdgeOnFlag("flag2", "bad", msg, M, orc)
  ELSE EdgeOnPhrase(e, msg, M, BANNED, "to_them_list", ToThem(msg, "bad"))

on_good_very_good(e, msg, M, orc) ==
  IF e = 14
  THEN EdgeOnDecision("good->very_good", msg, M, orc, "to_them_list",
                      ToThem(msg, "good"))
  ELSE EdgeOnPhrase(e, msg, M, MY_FRIEND, "to_them_list", ToThem(msg, "good"))

\* listen --> register: if listening and msg == "/travel": travel_to(...);
\* listening = False; return Move(ok)
on_listen_register(e, msg, M, orc) ==
  IF M.listening /\ msg.t = "str" /\ msg.s = TRAVEL
  THEN Returns([M EXCEPT !.listening = FALSE, !.travels = @ + 1], Move("ok"))
  ELSE Returns(M, NoEvent)

\* the @client.receive(route=...) registrations, in source order; a node
\* route has dst = ""
Route(src, dst, fn) == [src |-> src, dst |-> dst, fn |-> fn]

NodeHandlers ==
  <<Route("register", "", "on_node"), Route("contact", "", "on_node"),
    Route("friend", "", "on_node"), Route("ban", "", "on_node")>>

\* register --> ban declared with source contact
ToMeEdgesBanFromContact ==
  <<Route("register", "contact", "on_register_contact"),
    Route("contact", "ban", "on_register_ban"),
    Route("contact", "friend", "on_contact_friend")>>

ToMeEdges ==
  <<Route("register", "contact", "on_register_contact"),
    Route("register", "ban", "on_register_ban"),
    Route("contact", "friend", "on_contact_friend")>>

ToThemEdges ==
  <<Route("neutral", "good", "on_neutral_good"),
    Route("neutral", "bad", "on_neutral_bad"),
    Route("good", "very_good", "on_good_very_good")>>

ListenEdge == <<Route("listen", "register", "on_listen_register")>>

Handlers(e) ==
  IF e <= 7 THEN NodeHandlers
  ELSE IF e <= 11 THEN ToMeEdges \o NodeHandlers
  ELSE IF e = 12 THEN ToMeEdges \o ToThemEdges \o NodeHandlers
  ELSE ListenEdge \o ToMeEdges \o ToThemEdges \o NodeHandlers

Invoke(fn, e, msg, M, orc) ==
  CASE fn = "on_node" -> on_node(e, msg, M, orc)
    [] fn = "on_register_contact" -> on_register_contact(e, msg, M, orc)
    [] fn = "on_register_ban" -> on_register_ban(e, msg, M, orc)
    [] fn = "on_contact_friend" -> on_contact_friend(e, msg, M, orc)
    [] fn = "on_neutral_good" -> on_neutral_good(e, msg, M, orc)
    [] fn = "on_neutral_bad" -> on_neutral_bad(e, msg, M, orc)
    [] fn = "on_good_very_good" -> on_good_very_good(e, msg, M, orc)
    [] OTHER -> on_listen_register(e, msg, M, orc)

-----------------------------------------------------------------------------
(* The engine: hook chain, dispatch and its reduction, gated sends         *)

\* the stages of a chain in ascending priority, ties in registration order
RECURSIVE SortByPriority(_)
SortByPriority(hooks) ==
  IF Len(hooks) = 0 THEN <<>>
  ELSE LET i == CHOOSE i \in 1..Len(hooks) :
                  \A j \in 1..Len(hooks) :
                     hooks[i].priority < hooks[j].priority
                     \/ (hooks[i].priority = hooks[j].priority /\ i <= j)
           rest == [k \in 1..(Len(hooks) - 1) |->
                      IF k < i THEN hooks[k] ELSE hooks[k + 1]]
       IN <<hooks[i]>> \o SortByPriority(rest)

DEFAULT_KEY == Text("default")

\* the keys of a keyed snapshot in the order upload_states built the dict:
\* the to_me key before the to_them key
RECURSIVE KeySeq(_)
KeySeq(S) ==
  IF S = {} THEN <<>>
  ELSE LET k == IF \E x \in S : x[1] = "to_me:"
                THEN CHOOSE x \in S : x[1] = "to_me:"
                ELSE CHOOSE x \in S : TRUE
       IN <<k>> \o KeySeq(S \ {k})

\* the state tape of a snapshot: one [key, st] per state machine
Tape(snap) ==
  IF snap.t = "single" THEN <<[key |-> DEFAULT_KEY, st |-> Str(snap.v)]>>
  ELSE IF snap.t = "map"
  THEN LET ks == KeySeq(DOMAIN snap.m) IN
       [i \in 1..Len(ks) |-> [key |-> ks[i], st |-> Str(snap.m[ks[i]])]]
  ELSE <<>>

\* the (handler, key) pairs eligible on a tape: a node handler when the
\* key's state is its node, an edge handler when it is the edge's source
RECURSIVE Eligible(_, _, _)
Eligible(hs, tape, n) ==
  IF n > Len(hs) * Len(tape) THEN <<>>
  ELSE LET h == hs[((n - 1) \div Len(tape)) + 1]
           t == tape[((n - 1) % Len(tape)) + 1]
       IN (IF h.src = t.st THEN <<[h |-> h, key |-> t.key]>> ELSE <<>>)
          \o Eligible(hs, tape, n + 1)

\* invoke the eligible handlers from the i-th on in order, threading the
\* globals; log holds the results of those already invoked
RECURSIVE RunHandlers(_, _, _, _, _, _, _)
RunHandlers(pairs, i, e, msg, M, orc, log) ==
  IF i > Len(pairs) THEN [M |-> M, log |-> log]
  ELSE LET r == Invoke(pairs[i].h.fn, e, msg, M, orc)
       IN RunHandlers(pairs, i + 1, e, msg, r.M, orc,
                      Append(log, [key |-> pairs[i].key, src |-> pairs[i].h.src,
                                   dst |-> pairs[i].h.dst, ev |-> r.ev,
                                   raised |-> r.raised]))

AnyRaised(log) == \E i \in 1..Len(log) : log[i].raised

\* first-registered-wins: the first Move on a key, 0 when there is none
FirstMove(log, key) ==
  IF \E i \in 1..Len(log) : log[i].key = key /\ log[i].ev.action = "MOVE"
  THEN CHOOSE i \in 1..Len(log) :
         /\ log[i].key = key /\ log[i].ev.action = "MOVE"
         /\ \A j \in 1..(i - 1) : ~(log[j].key = key /\ log[j].ev.action = "MOVE")
  ELSE 0

FirstWith(log, action) ==
  IF \E i \in 1..Len(log) : log[i].ev.action = action
  THEN CHOOSE i \in 1..Len(log) :
         /\ log[i].ev.action = action
         /\ \A j \in 1..(i - 1) : log[j].ev.action # action
  ELSE 0

\* the reduction: a failure gives no event; else the first Move; else the
\* Stay or Test of a handler; else no event
Reduce(log) ==
  IF AnyRaised(log) THEN NoEvent
  ELSE IF FirstWith(log, "MOVE") > 0 THEN log[FirstWith(log, "MOVE")].ev
  ELSE IF FirstWith(log, "STAY") > 0 THEN log[FirstWith(log, "STAY")].ev
  ELSE IF FirstWith(log, "TEST") > 0 THEN log[FirstWith(log, "TEST")].ev
  ELSE NoEvent

\* the state of a key after the dispatch
NextState(log, t) ==
  IF AnyRaised(log) \/ FirstMove(log, t.key) = 0 THEN t.st
  ELSE log[FirstMove(log, t.key)].dst

\* what the engine hands to download_states: per key the states it holds
\* active, the new state first, last or alone after a Move (the order is
\* the engine's); a flat list when the snapshot was a single state
CandShapes == {"new", "old_new", "new_old"}

CandList(log, t, shape) ==
  LET new == NextState(log, t) IN
  IF new = t.st THEN <<NodeV(t.st)>>
  ELSE IF shape = "new" THEN <<NodeV(new)>>
  ELSE IF shape = "old_new" THEN <<NodeV(t.st), NodeV(new)>>
  ELSE <<NodeV(new), NodeV(t.st)>>

FlatCands(l) == [t |-> "list", l |-> l, m |-> <<>>]
KeyedCands(m) == [t |-> "map", l |-> <<>>, m |-> m]
NoCands == KeyedCands(<<>>)

EngineCandidates(snap, log, shape) ==
  LET tape == Tape(snap) IN
  IF snap.t = "single" THEN FlatCands(CandList(log, tape[1], shape))
  ELSE KeyedCands([i \in 1..Len(tape) |->
                     [key |-> tape[i].key, states |-> CandList(log, tape[i], shape)]])

\* a gated send handler runs when the fired event's action and trigger are
\* in its sets
GateOpen(h, ev) == ev.action \in h.on_actions /\ ev.trigger \in h.on_triggers

-----------------------------------------------------------------------------
(* download_states.  Gives [raised, state, relations, outside_view].       *)

\* [s for s in states if str(s) != str(v)]
Differing(states, v) == SelectSeq(states, LAMBDA s : Str(s) # Str(v))

\* the first candidate taken whether it differs from the stored value or not
AdoptFirst(states, v) == IF states # <<>> THEN states[1] ELSE v

\* the last differing candidate taken instead of the first
AdoptLast(states, v) ==
  IF Differing(states, v) # <<>>
  THEN Differing(states, v)[Len(Differing(states, v))] ELSE v

\* a candidate adopted only when every candidate differs from the stored value
AdoptWhenAllDiffer(states, v) ==
  IF states # <<>> /\ Differing(states, v) = states THEN states[1] ELSE v

\* the value stored after one key's candidates were looked at
Adopt(states, v) == IF Differing(states, v) # <<>> THEN Differing(states, v)[1] ELSE v

\* key.split(sep)[1] for a key that starts with sep: the text between the
\* leading sep and the next sep
RECURSIVE UpTo(_, _, _)
UpTo(s, i, sep) ==
  IF i > Len(s) \/ s[i] = sep THEN <<>> ELSE <<s[i]>> \o UpTo(s, i + 1, sep)

SplitSecond(key, sep) == UpTo(key, 2, sep)

\* every non-empty key taken as a key of the channel
StartsWithAnything(key, sep) == Len(key) >= 1

StartsWith(key, sep) == Len(key) >= 1 /\ key[1] = sep

Done(st, rel, out) ==
  [raised |-> FALSE, state |-> st, relations |-> rel, outside_view |-> out]
Failed(st, rel, out) ==
  [raised |-> TRUE, state |-> st, relations |-> rel, outside_view |-> out]

\* one (key, states) item of the loop of examples 10-11; relations[key] is
\* evaluated once per candidate, so an empty list never reads the map
DownloadItem10(item, rel, out) ==
  IF item.states = <<>> THEN Done(StrV(""), rel, out)
  ELSE IF item.key \notin DOMAIN rel THEN Failed(StrV(""), rel, out)   \* KeyError
  ELSE Done(StrV(""), Put(rel, item.key, Adopt(item.states, rel[item.key])), out)

\* one item of the loop of examples 12-14; example 14 reads with .get(id, "")
DownloadItem12(e, item, rel, out) ==
  LET id1 == SplitSecond(item.key, "to_me:")
      id2 == SplitSecond(item.key, "to_them:")
  IN
  IF StartsWith(item.key, "to_me:")
  THEN IF id1 \in DOMAIN rel
       THEN Done(StrV(""), Put(rel, id1, Adopt(item.states, rel[id1])), out)
       ELSE IF item.states = <<>> THEN Done(StrV(""), rel, out)
       ELSE IF e <= 13 THEN Failed(StrV(""), rel, out)            \* KeyError
       ELSE Done(StrV(""), Put(rel, id1, Adopt(item.states, StrV(""))), out)
  ELSE IF StartsWith(item.key, "to_them:")
  THEN IF id2 \in DOMAIN out
       THEN Done(StrV(""), rel, Put(out, id2, Adopt(item.states, out[id2])))
       ELSE IF item.states = <<>> THEN Done(StrV(""), rel, out)
       ELSE IF e <= 13 THEN Failed(StrV(""), rel, out)            \* KeyError
       ELSE Done(StrV(""), rel, Put(out, id2, Adopt(item.states, StrV(""))))
  ELSE Done(StrV(""), rel, out)

\* the for loop over possible_states.items(); a raise ends it
RECURSIVE DownloadLoop(_, _, _, _, _)
DownloadLoop(e, items, i, rel, out) ==
  IF i > Len(items) THEN Done(StrV(""), rel, out)
  ELSE LET r == IF e <= 11 THEN DownloadItem10(items[i], rel, out)
                ELSE DownloadItem12(e, items[i], rel, out)
       IN IF r.raised THEN r
          ELSE DownloadLoop(e, items, i + 1, r.relations, r.outside_view)

\* download_states without the isinstance(possible_states, list) wrapping
download_statesNoWrap(e, cands, st, rel, out, lis) ==
  IF e <= 8 THEN Done(st, rel, out)
  ELSE IF e = 9 THEN Done(Adopt(cands.l, st), rel, out)
  ELSE IF e >= 13 /\ lis THEN Done(st, rel, out)
  ELSE IF cands.t = "list" THEN Failed(st, rel, out)
  ELSE LET r == DownloadLoop(e, cands.m, 1, rel, out) IN [r EXCEPT !.state = st]

\* download_states of example 9 registered in example 8 as well
download_statesFrom8(e, cands, st, rel, out, lis) ==
  IF e <= 7 THEN Done(st, rel, out)
  ELSE IF e <= 9 THEN Done(Adopt(cands.l, st), rel, out)
  ELSE IF e >= 13 /\ lis THEN Done(st, rel, out)
  ELSE IF cands.t = "list"
  THEN IF e <= 12 THEN Failed(st, rel, out)
       ELSE LET r == DownloadLoop(e, <<[key |-> DEFAULT_KEY, states |-> cands.l]>>,
                                  1, rel, out)
            IN [r EXCEPT !.state = st]
  ELSE LET r == DownloadLoop(e, cands.m, 1, rel, out) IN [r EXCEPT !.state = st]

\* examples 4-7 register no callback; 8 only draws; 9 takes a flat list
download_states(e, cands, st, rel, out, lis) ==
  IF e <= 8 THEN Done(st, rel, out)
  ELSE IF e = 9 THEN Done(Adopt(cands.l, st), rel, out)
  ELSE IF e >= 13 /\ lis THEN Done(st, rel, out)
  ELSE IF cands.t = "list"
  THEN IF e <= 12 THEN Failed(st, rel, out)          \* a list has no .items()
       ELSE LET r == DownloadLoop(e, <<[key |-> DEFAULT_KEY, states |-> cands.l]>>,
                                  1, rel, out)
            IN [r EXCEPT !.state = st]
  ELSE LET r == DownloadLoop(e, cands.m, 1, rel, out) IN [r EXCEPT !.state = st]

-----------------------------------------------------------------------------
(* Senders and the SEND hook                                               *)

\* a `from` the handler supplied is kept
UpdateKeepsOld(d, k, v) ==
  [x \in DOMAIN d \cup {k} |-> IF x \in DOMAIN d THEN d[x] ELSE v]

\* msg.update({"from": AGENT_ID})
Update(d, k, v) == [x \in DOMAIN d \cup {k} |-> IF x = k THEN v ELSE d[x]]

\* sign: text becomes {"message": text}; what is not a dict is dropped
sign(e, msg) ==
  LET m == IF msg.t = "str" THEN PDict([k \in {"message"} |-> msg.s]) ELSE msg IN
  IF m.t # "dict" THEN NoPayload
  ELSE PDict(Update(m.d, "from", AGENT_ID(e)))

\* {"to": to, "message": message}
Outbound(to, message) ==
  PDict([k \in {"to", "message"} |-> IF k = "to" THEN to ELSE message])

\* the SEND chain over a batch (sign, registered from example 4 on); a
\* dropped payload is not sent
SignAll(e, batch) ==
  IF e <= 3 THEN batch ELSE
  SelectSeq([i \in 1..Len(batch) |-> sign(e, batch[i])], LAMBDA p : p # NoPayload)

\* the status text of an edge: fixed in examples 11-13, generated in 14
StatusText(e, kind) ==
  IF e = 14 THEN <<"generated:", kind>>
  ELSE IF kind = "contact" THEN MY_CONTACT
  ELSE IF kind = "ban" THEN BANNED
  ELSE MY_FRIEND

\* try: return [{"to": id, "message": text} for id in box]
\* finally: box = []
DrainBatch(e, box, kind) == [i \in 1..Len(box) |-> Outbound(box[i], StatusText(e, kind))]

\* the registrations with Action.TEST let through the gate as well
SendHandlersOnTest(e) ==
  IF e <= 10 THEN <<>>
  ELSE <<[src |-> "register", dst |-> "contact", box |-> "contact_list",
          kind |-> "contact", on_actions |-> {"MOVE", "TEST"}, on_triggers |-> {"ok"}],
         [src |-> "register", dst |-> "ban", box |-> "ban_list",
          kind |-> "ban", on_actions |-> {"MOVE", "TEST"}, on_triggers |-> {"ok"}],
         [src |-> "contact", dst |-> "friend", box |-> "friend_list",
          kind |-> "friend", on_actions |-> {"MOVE", "TEST"}, on_triggers |-> {"ok"}]>>

\* the @client.send(route=..., multi=True, on_actions=..., on_triggers=...)
\* registrations, in source order
SendHandlers(e) ==
  IF e <= 10 THEN <<>>
  ELSE <<[src |-> "register", dst |-> "contact", box |-> "contact_list",
          kind |-> "contact", on_actions |-> {"MOVE"}, on_triggers |-> {"ok"}],
         [src |-> "register", dst |-> "ban", box |-> "ban_list",
          kind |-> "ban", on_actions |-> {"MOVE"}, on_triggers |-> {"ok"}],
         [src |-> "contact", dst |-> "friend", box |-> "friend_list",
          kind |-> "friend", on_actions |-> {"MOVE"}, on_triggers |-> {"ok"}]>>

\* the clock sender without its `if listening` branch
send_on_clockAnyMode(e, lis) ==
  IF e <= 7 THEN PStr(Text("hello"))
  ELSE IF e <= 13 THEN Outbound(None, HELLO)
  ELSE Outbound(None, <<"generated:", "broadcast">>)

\* send_on_clock (route "clock"): the payload returned, NoPayload for None
send_on_clock(e, lis) ==
  IF e >= 13 /\ lis THEN NoPayload
  ELSE IF e <= 7 THEN PStr(Text("hello"))
  ELSE IF e <= 13 THEN Outbound(None, HELLO)
  ELSE Outbound(None, <<"generated:", "broadcast">>)

\* msg(status) of the reputation sender
ReputationText(e, status) ==
  IF e = 14
  THEN (IF status = "good" THEN <<"generated:", "good_flag">>
        ELSE <<"generated:", "bad_flag">>)
  ELSE IF status = "good" THEN LIKE
  ELSE IF status = "bad" THEN DISLIKE
  ELSE None

\* the reputation sender (route "reputation", multi=True): to_them_list is read
\* and not cleared
send_reputation(e, lis, box) ==
  IF e >= 13 /\ lis THEN <<>>
  ELSE [i \in 1..Len(box) |-> Outbound(box[i].to, ReputationText(e, box[i].status))]

-----------------------------------------------------------------------------
(* The envelopes the transport may deliver                                 *)

ABSENT == <<"#absent">>

\* the content dict {from, to, message}, a key left out when ABSENT
Content(from, to, message) ==
  LET val == [k \in {"from", "to", "message"} |->
                IF k = "from" THEN from ELSE IF k = "to" THEN to ELSE message]
  IN PDict([k \in {x \in {"from", "to", "message"} : val[x] # ABSENT} |-> val[k]])

Envelope(content) == PEnv({"remote_addr", "content"}, content)

PeerA == Agent(<<"6">>)                  \* in every allowlist
PeerB == Agent(<<"1", "0", "_", "3">>)   \* matched by prefix only
PeerShort == Agent(<<"1">>)              \* a proper prefix of allowlist entries
Mallory == Text("Mallory")               \* in no allowlist
OTHER_ID == Text("SomeoneElse")

Froms == {ABSENT, None, PeerA, PeerB, PeerShort, Mallory}
Tos(e) == {ABSENT, None, AGENT_ID(e), OTHER_ID}
\* the message texts that an example tells apart: none in 4-7, the to_me
\* phrases in 8-11, the to_them phrases too in 12-13, equal / unequal in 14
Messages(e) ==
  IF e <= 7 THEN {ABSENT, HELLO}
  ELSE IF e <= 11 THEN {ABSENT, HELLO, DISLIKE, LIKE, Text("other")}
  ELSE IF e <= 13 THEN {ABSENT, HELLO, DISLIKE, LIKE, MY_CONTACT, BANNED,
                        MY_FRIEND, Text("other")}
  ELSE {ABSENT, HELLO, LIKE}

Envelopes(e) ==
  {PStr(Text("raw")),
   PEnv({"remote_addr"}, NoPayload),
   PEnv({"content"}, Content(PeerA, None, HELLO)),
   Envelope(PStr(Text("not-a-dict"))),
   Envelope(PStr(TRAVEL))}
  \cup {Envelope(Content(f, None, HELLO)) : f \in Froms}
  \cup {Envelope(Content(PeerA, t, HELLO)) : t \in Tos(e)}
  \cup {Envelope(Content(ABSENT, OTHER_ID, HELLO))}
  \cup {Envelope(Content(f, None, m)) : f \in {PeerA, PeerB}, m \in Messages(e)}

-----------------------------------------------------------------------------
(* State machine                                                           *)

\* no periodic sender has run since the envelope arrived
NoRun == [route |-> "none", listening |-> FALSE, out |-> <<>>]

\* no download_states call is in progress
NoCall == [t |-> "none"]

\* the lock is free and nobody waits for it
FreeLock == [held |-> FALSE, owner |-> "none", waiters |-> <<>>]

\* no sender run in progress
NoBatch == [start |-> <<>>, batch |-> <<>>, failure |-> "none", seen |-> 0]

\* example 14 at start: _dashboard_snapshot = {"listening": True, "rows": []},
\* _dashboard_lock free, no refresh and no GET in progress
NoDashboard ==
  [snapshot |-> [listening |-> TRUE, rows |-> EmptyMap],
   lock |-> "free",
   refresh |-> [at |-> "idle", rows |-> EmptyMap],
   http |-> [at |-> "idle", listening |-> TRUE],
   served |-> [listening |-> TRUE, rows |-> EmptyMap],
   instants |-> {[listening |-> TRUE, rows |-> EmptyMap]},
   copies |-> {}]

\* no decide_move call has been made
NoDeciding == [calls |-> <<>>, log |-> <<>>]

\* the event loop has no task yet
NoTasks ==
  /\ state_lock = FreeLock
  /\ at = <<>>
  /\ run = NoBatch
  /\ returned = <<>>
  /\ pending = 0
  /\ appended = <<>>
  /\ moved = <<>>
  /\ writes = {}
  /\ rmw = [open |-> <<>>, torn |-> {}]
  /\ dashboard = NoDashboard
  /\ deciding = NoDeciding

\* the protocol state a message may or may not touch
Persist ==
  [relations |-> relations, outside_view |-> outside_view,
   contact_list |-> contact_list, ban_list |-> ban_list,
   friend_list |-> friend_list, to_them_list |-> to_them_list,
   listening |-> listening]

Globals ==
  [contact_list |-> contact_list, ban_list |-> ban_list,
   friend_list |-> friend_list, to_them_list |-> to_them_list,
   listening |-> listening, decision_cache |-> decision_cache,
   travels |-> travels]

Init ==
  /\ ex \in Examples
  /\ listening = (ex >= 13)
  /\ state = StrV("register")
  /\ relations = EmptyMap
  /\ outside_view = EmptyMap
  /\ contact_list = <<>>
  /\ ban_list = <<>>
  /\ friend_list = <<>>
  /\ to_them_list = <<>>
  /\ decision_cache = [k \in {} |-> "stay"]
  /\ travels = 0
  /\ pc = "idle"
  /\ cur = NoPayload
  /\ payload = NoPayload
  /\ hookLog = <<>>
  /\ logs = <<>>
  /\ snapshot = NoSnapshot
  /\ uploads = <<>>
  /\ handlerLog = <<>>
  /\ fired = NoEvent
  /\ candidates = NoCands
  /\ senderLog = <<>>
  /\ sent = <<>>
  /\ failures = 0
  /\ pre = [relations |-> EmptyMap, outside_view |-> EmptyMap,
            contact_list |-> <<>>, ban_list |-> <<>>, friend_list |-> <<>>,
            to_them_list |-> <<>>, listening |-> (ex >= 13)]
  /\ nmsgs = 0
  /\ periodic = NoRun
  /\ dl = NoCall
  /\ NoTasks

\* the transport delivers an envelope: a new receive cycle starts
Deliver ==
  /\ pc = "idle"
  /\ nmsgs < MaxMsgs
  /\ \E env \in Envelopes(ex) : cur' = env /\ payload' = env
  /\ nmsgs' = nmsgs + 1
  /\ pc' = IF Len(ReceiveHooks(ex)) = 0 THEN "upload" ELSE "hooks"
  /\ hookLog' = <<>>
  /\ logs' = <<>>
  /\ snapshot' = NoSnapshot
  /\ uploads' = <<>>
  /\ handlerLog' = <<>>
  /\ fired' = NoEvent
  /\ candidates' = NoCands
  /\ senderLog' = <<>>
  /\ failures' = 0
  /\ sent' = <<>>
  /\ pre' = Persist
  /\ periodic' = NoRun
  /\ UNCHANGED dl
  /\ UNCHANGED tasking
  /\ UNCHANGED <<ex, listening, state, relations, outside_view, contact_list,
                 ban_list, friend_list, to_them_list, decision_cache, travels>>

\* the engine runs the next RECEIVE stage; None or a failure drops the message
RunHook ==
  /\ pc = "hooks"
  /\ LET order == SortByPriority(ReceiveHooks(ex))
         i == Len(hookLog) + 1
         r == RunStage(order[i].fn, ex, payload, listening)
     IN /\ hookLog' = Append(hookLog, [fn |-> order[i].fn, in |-> payload,
                                       out |-> r.ret, raised |-> r.raised])
        /\ logs' = logs \o r.log
        /\ payload' = r.ret
        /\ failures' = IF r.raised THEN failures + 1 ELSE failures
        /\ pc' = IF r.ret = NoPayload THEN "idle"
                 ELSE IF i = Len(order) THEN "upload" ELSE "hooks"
  /\ UNCHANGED <<periodic, dl>>
  /\ UNCHANGED tasking
  /\ UNCHANGED <<ex, listening, state, relations, outside_view, contact_list,
                 ban_list, friend_list, to_them_list, decision_cache, travels,
                 cur, snapshot, uploads, handlerLog, fired, candidates,
                 senderLog, sent, pre, nmsgs>>

\* the engine asks the agent for its states; it may ask again before it
\* dispatches
Upload ==
  /\ \/ pc = "upload"
     \/ pc = "dispatch" /\ Len(uploads) < MaxUploads
  /\ LET r == upload_states(ex, payload, state, relations, outside_view, listening)
     IN /\ snapshot' = r.ret
        /\ uploads' = Append(uploads, [ret |-> r.ret, raised |-> r.raised,
                                       relations |-> r.relations,
                                       outside_view |-> r.outside_view])
        /\ relations' = r.relations
        /\ outside_view' = r.outside_view
        /\ failures' = IF r.raised THEN failures + 1 ELSE failures
        /\ pc' = IF r.raised THEN "idle" ELSE "dispatch"
  /\ UNCHANGED <<periodic, dl>>
  /\ UNCHANGED tasking
  /\ UNCHANGED <<ex, listening, state, contact_list, ban_list, friend_list,
                 to_them_list, decision_cache, travels, cur, payload, hookLog,
                 logs, handlerLog, fired, candidates, senderLog, sent, pre,
                 nmsgs>>

\* what the policy of example 14 is asked during a dispatch: decide_move per
\* decision kind, infer_flag_from_msg per call
DecideKinds == {"register->contact", "register->ban", "contact->friend",
                "good->very_good"}
FlagCalls == {"flag1", "flag2"}

\* the policy calls a handler makes
Consults(fn) ==
  CASE fn = "on_register_contact" -> {"register->contact"}
    [] fn = "on_register_ban" -> {"register->ban"}
    [] fn = "on_contact_friend" -> {"contact->friend"}
    [] fn = "on_good_very_good" -> {"good->very_good"}
    [] fn = "on_neutral_good" -> {"flag1"}
    [] fn = "on_neutral_bad" -> {"flag2"}
    [] OTHER -> {}

\* the answers that can matter to the eligible handlers; a call that is not
\* made has no answer, written as stay / neutral
Oracles(e, pairs) ==
  LET asked == IF e = 14
               THEN UNION {Consults(pairs[i].h.fn) : i \in 1..Len(pairs)} ELSE {}
  IN {[k \in DecideKinds \cup FlagCalls |->
         IF k \in asked \cap DecideKinds THEN d[k]
         ELSE IF k \in asked \cap FlagCalls THEN f[k]
         ELSE IF k \in DecideKinds THEN "stay" ELSE "neutral"] :
         d \in [asked \cap DecideKinds -> {"move", "stay"}],
         f \in [asked \cap FlagCalls -> {"good", "bad", "neutral"}]}

Moved(log, tape) == \E i \in 1..Len(tape) : NextState(log, tape[i]) # tape[i].st

\* the engine invokes the eligible handlers and reduces their events
Dispatch ==
  /\ pc = "dispatch"
  /\ LET pairs == Eligible(Handlers(ex), Tape(snapshot), 1) IN
     \E orc \in Oracles(ex, pairs) :
       \E r \in {RunHandlers(pairs, 1, ex, payload, Globals, orc, <<>>)} :
       \E shape \in IF Moved(r.log, Tape(snapshot)) THEN CandShapes ELSE {"new"} :
          /\ handlerLog' = r.log
          /\ contact_list' = r.M.contact_list
          /\ ban_list' = r.M.ban_list
          /\ friend_list' = r.M.friend_list
          /\ to_them_list' = r.M.to_them_list
          /\ listening' = r.M.listening
          /\ decision_cache' = r.M.decision_cache
          /\ travels' = r.M.travels
          /\ fired' = Reduce(r.log)
          /\ failures' = IF AnyRaised(r.log) THEN failures + 1 ELSE failures
          /\ candidates' = EngineCandidates(snapshot, r.log, shape)
  /\ uploads' = <<>>
  /\ pc' = "download"
  /\ UNCHANGED <<periodic, dl>>
  /\ UNCHANGED tasking
  /\ UNCHANGED <<ex, state, relations, outside_view, cur, payload, hookLog, logs,
                 snapshot, senderLog, sent, pre, nmsgs>>

\* the engine pushes the states back
Download ==
  /\ pc = "download"
  /\ LET r == download_states(ex, candidates, state, relations, outside_view,
                              listening)
     IN /\ state' = r.state
        /\ relations' = r.relations
        /\ outside_view' = r.outside_view
        /\ failures' = IF r.raised THEN failures + 1 ELSE failures
  /\ pc' = IF Len(SendHandlers(ex)) = 0 THEN "idle" ELSE "send"
  /\ UNCHANGED <<periodic, dl>>
  /\ UNCHANGED tasking
  /\ UNCHANGED <<ex, listening, contact_list, ban_list, friend_list,
                 to_them_list, decision_cache, travels, cur, payload, hookLog,
                 logs, snapshot, uploads, handlerLog, fired, candidates,
                 senderLog, sent, nmsgs, pre>>

Box(name) ==
  CASE name = "contact_list" -> contact_list
    [] name = "ban_list" -> ban_list
    [] OTHER -> friend_list

\* the engine considers the next gated sender: it runs when its gate is open
\* on the fired event, and is skipped otherwise
GatedSend ==
  /\ pc = "send"
  /\ LET i == Len(senderLog) + 1
         h == SendHandlers(ex)[i]
         ran == GateOpen(h, fired)
         batch == IF ran THEN SignAll(ex, DrainBatch(ex, Box(h.box), h.kind)) ELSE <<>>
     IN /\ senderLog' = Append(senderLog, [src |-> h.src, dst |-> h.dst,
                                           ran |-> ran, out |-> batch])
        /\ sent' = IF ran THEN batch ELSE sent
        /\ contact_list' = IF ran /\ h.box = "contact_list" THEN <<>> ELSE contact_list
        /\ ban_list' = IF ran /\ h.box = "ban_list" THEN <<>> ELSE ban_list
        /\ friend_list' = IF ran /\ h.box = "friend_list" THEN <<>> ELSE friend_list
        /\ pc' = IF i = Len(SendHandlers(ex)) THEN "idle" ELSE "send"
  /\ UNCHANGED <<periodic, dl>>
  /\ UNCHANGED tasking
  /\ UNCHANGED <<ex, listening, state, relations, outside_view, to_them_list,
                 decision_cache, travels, cur, payload, hookLog, logs, snapshot,
                 uploads, handlerLog, fired, candidates, failures, pre, nmsgs>>

\* the periodic clock sender (examples 3-14)
Clock ==
  /\ pc = "idle"
  /\ ex >= 3
  /\ LET batch == SelectSeq(<<send_on_clock(ex, listening)>>,
                            LAMBDA p : p # NoPayload)
     IN /\ sent' = SignAll(ex, batch)
        /\ periodic' = [route |-> "clock", listening |-> listening,
                        out |-> batch]
  /\ UNCHANGED dl
  /\ UNCHANGED tasking
  /\ UNCHANGED <<ex, listening, state, relations, outside_view, contact_list,
                 ban_list, friend_list, to_them_list, decision_cache, travels,
                 pc, cur, payload, hookLog, logs, snapshot, uploads, handlerLog,
                 fired, candidates, senderLog, failures, pre, nmsgs>>

\* the periodic reputation sender (examples 12-14)
Reputation ==
  /\ pc = "idle"
  /\ ex >= 12
  /\ LET batch == send_reputation(ex, listening, to_them_list)
     IN /\ sent' = SignAll(ex, batch)
        /\ periodic' = [route |-> "reputation", listening |-> listening,
                        out |-> batch]
  /\ UNCHANGED dl
  /\ UNCHANGED tasking
  /\ UNCHANGED <<ex, listening, state, relations, outside_view, contact_list,
                 ban_list, friend_list, to_them_list, decision_cache, travels,
                 pc, cur, payload, hookLog, logs, snapshot, uploads, handlerLog,
                 fired, candidates, senderLog, failures, pre, nmsgs>>

Next ==
  \/ Deliver
  \/ RunHook
  \/ Upload
  \/ Dispatch
  \/ Download
  \/ GatedSend
  \/ Clock
  \/ Reputation

Spec == Init /\ [][Next]_vars

-----------------------------------------------------------------------------
(* The state callbacks on their own: upload_states and download_states     *)
(* called on the states the agent can hold, download_states with any       *)
(* candidates a caller may hand it                                         *)

\* a peer whose id passes the prefix allowlist of examples 12-14 and holds
\* the text of both channel prefixes: "ChangeMe_Agent_12to_me:to_them:"
PeerTricky == Agent(<<"1", "2">>) \o TO_ME \o TO_THEM

\* a third allowlisted peer
PeerC == Agent(<<"7">>)

SyncPeers(e) == IF e <= 11 THEN {PeerA, PeerB, PeerC} ELSE {PeerA, PeerTricky}

\* a key of an unknown channel
OTHER_CHANNEL == Text("other:")

SyncKeys(e) ==
  IF e <= 11 THEN SyncPeers(e) \cup {DEFAULT_KEY}
  ELSE {TO_ME \o p : p \in SyncPeers(e)} \cup {TO_THEM \o p : p \in SyncPeers(e)}
       \cup {DEFAULT_KEY, OTHER_CHANNEL \o PeerA}

\* candidate lists: none, the default state alone, two states in either
\* order, two states that both differ from the default
CandLists ==
  {<<>>, <<NodeV("register")>>,
   <<NodeV("register"), NodeV("contact")>>,
   <<NodeV("contact"), NodeV("register")>>,
   <<NodeV("ban"), NodeV("contact")>>}

PairLists == {<<NodeV("contact"), NodeV("register")>>,
              <<NodeV("ban"), NodeV("contact")>>}

\* the calls: a flat list, one keyed item, two keyed items in either order
SyncCalls(e) ==
  {FlatCands(l) : l \in CandLists}
  \cup (IF e = 9 THEN {}
        ELSE {KeyedCands(<<[key |-> k, states |-> l]>>) :
                k \in SyncKeys(e), l \in CandLists}
             \cup {KeyedCands(<<[key |-> k[1], states |-> l1],
                               [key |-> k[2], states |-> l2]>>) :
                     k \in {kk \in SyncKeys(e) \X SyncKeys(e) : kk[1] # kk[2]},
                     l1 \in PairLists,
                     l2 \in {<<NodeV("contact"), NodeV("register")>>}})

SyncInit ==
  /\ ex \in 9..14
  /\ listening \in (IF ex >= 13 THEN BOOLEAN ELSE {FALSE})
  /\ state = StrV("register")
  /\ relations = EmptyMap
  /\ outside_view = EmptyMap
  /\ contact_list = <<>>
  /\ ban_list = <<>>
  /\ friend_list = <<>>
  /\ to_them_list = <<>>
  /\ decision_cache = [k \in {} |-> "stay"]
  /\ travels = 0
  /\ pc = "sync"
  /\ cur = NoPayload
  /\ payload = NoPayload
  /\ hookLog = <<>>
  /\ logs = <<>>
  /\ snapshot = NoSnapshot
  /\ uploads = <<>>
  /\ handlerLog = <<>>
  /\ fired = NoEvent
  /\ candidates = NoCands
  /\ senderLog = <<>>
  /\ sent = <<>>
  /\ failures = 0
  /\ pre = [relations |-> EmptyMap, outside_view |-> EmptyMap,
            contact_list |-> <<>>, ban_list |-> <<>>, friend_list |-> <<>>,
            to_them_list |-> <<>>, listening |-> listening]
  /\ nmsgs = 0
  /\ periodic = NoRun
  /\ dl = NoCall
  /\ NoTasks

\* upload_states is called with a validated message of a peer
SyncUpload ==
  /\ pc = "sync" /\ dl = NoCall
  /\ \E p \in SyncPeers(ex) :
       LET msg == Content(p, None, HELLO)
           r == upload_states(ex, msg, state, relations, outside_view, listening)
       IN /\ payload' = msg
          /\ snapshot' = r.ret
          /\ relations' = r.relations
          /\ outside_view' = r.outside_view
  /\ UNCHANGED <<ex, listening, state, contact_list, ban_list, friend_list,
                 to_them_list, decision_cache, travels, pc, cur, hookLog, logs,
                 uploads, handlerLog, fired, candidates, senderLog, sent,
                 failures, pre, nmsgs, periodic, dl>>
  /\ UNCHANGED tasking

\* download_states is called; dl keeps the input and the state it found
SyncDownload ==
  /\ pc = "sync" /\ dl = NoCall
  /\ \E c \in SyncCalls(ex) :
       \E r \in {download_states(ex, c, state, relations, outside_view, listening)} :
          /\ dl' = [t |-> "call", cands |-> c, state |-> state,
                    relations |-> relations, outside_view |-> outside_view,
                    raised |-> r.raised]
          /\ state' = r.state
          /\ relations' = r.relations
          /\ outside_view' = r.outside_view
  /\ UNCHANGED <<ex, listening, contact_list, ban_list, friend_list,
                 to_them_list, decision_cache, travels, pc, cur, payload,
                 hookLog, logs, snapshot, uploads, handlerLog, fired,
                 candidates, senderLog, sent, failures, pre, nmsgs, periodic>>
  /\ UNCHANGED tasking

\* the call returns to its caller
SyncReturn ==
  /\ pc = "sync" /\ dl # NoCall
  /\ dl' = NoCall
  /\ UNCHANGED <<ex, listening, state, relations, outside_view, contact_list,
                 ban_list, friend_list, to_them_list, decision_cache, travels,
                 pc, cur, payload, hookLog, logs, snapshot, uploads, handlerLog,
                 fired, candidates, senderLog, sent, failures, pre, nmsgs,
                 periodic>>
  /\ UNCHANGED tasking

SyncNext ==
  \/ SyncUpload
  \/ SyncDownload
  \/ SyncReturn

SpecSync == SyncInit /\ [][SyncNext]_vars

-----------------------------------------------------------------------------
(* The SEND hook and the wire: an agent signs what a send handler returned  *)
(* and an agent of any example with a RECEIVE chain validates it            *)

\* a payload that is neither text nor a dict
OtherPayload == [t |-> "list"]

SignTos == {ABSENT, None, OTHER_ID, AGENT_ID(7), AGENT_ID(14)}

\* what a send handler may return: text, a dict with or without from, to and
\* message, None, something else
SignInputs(e) ==
  {PStr(Text("hello")), PStr(HELLO), NoPayload, OtherPayload}
  \cup {Content(f, t, m) : f \in {ABSENT, None, Mallory, AGENT_ID(e)},
                           t \in SignTos, m \in {ABSENT, HELLO}}

SignInit ==
  /\ ex \in 4..14
  /\ listening = (ex >= 13)
  /\ state = StrV("register")
  /\ relations = EmptyMap
  /\ outside_view = EmptyMap
  /\ contact_list = <<>>
  /\ ban_list = <<>>
  /\ friend_list = <<>>
  /\ to_them_list = <<>>
  /\ decision_cache = [k \in {} |-> "stay"]
  /\ travels = 0
  /\ pc = "sign"
  /\ cur \in SignInputs(ex)
  /\ payload = NoPayload
  /\ hookLog = <<>>
  /\ logs = <<>>
  /\ snapshot = NoSnapshot
  /\ uploads = <<>>
  /\ handlerLog = <<>>
  /\ fired = NoEvent
  /\ candidates = NoCands
  /\ senderLog = <<>>
  /\ sent = <<>>
  /\ failures = 0
  /\ pre = [relations |-> EmptyMap, outside_view |-> EmptyMap,
            contact_list |-> <<>>, ban_list |-> <<>>, friend_list |-> <<>>,
            to_them_list |-> <<>>, listening |-> listening]
  /\ nmsgs = 0
  /\ periodic = NoRun
  /\ dl = NoCall
  /\ NoTasks

\* the engine passes the handler's payload through the SEND chain and emits
\* what comes out
SignSend ==
  /\ pc = "sign"
  /\ payload' = sign(ex, cur)
  /\ sent' = SignAll(ex, <<cur>>)
  /\ pc' = "wire"
  /\ UNCHANGED <<ex, listening, state, relations, outside_view, contact_list,
                 ban_list, friend_list, to_them_list, decision_cache, travels,
                 cur, hookLog, logs, snapshot, uploads, handlerLog, fired,
                 candidates, senderLog, failures, pre, nmsgs, periodic, dl>>
  /\ UNCHANGED tasking

\* the emitted payload arrives at an agent of example r as the content of an
\* envelope and goes through that agent's validate
WireReceive ==
  /\ pc = "wire"
  /\ sent # <<>>
  /\ \E r \in 5..14 : \E lis \in (IF r >= 13 THEN BOOLEAN ELSE {FALSE}) :
       \E v \in {validate(r, Envelope(sent[1]), lis)} :
         hookLog' = <<[fn |-> "validate", in |-> Envelope(sent[1]), out |-> v.ret,
                      raised |-> v.raised, receiver |-> r]>>
  /\ pc' = "received"
  /\ UNCHANGED <<ex, listening, state, relations, outside_view, contact_list,
                 ban_list, friend_list, to_them_list, decision_cache, travels,
                 cur, payload, logs, snapshot, uploads, handlerLog, fired,
                 candidates, senderLog, sent, failures, pre, nmsgs, periodic, dl>>
  /\ UNCHANGED tasking

SignNext ==
  \/ SignSend
  \/ WireReceive

SpecSign == SignInit /\ [][SignNext]_vars

-----------------------------------------------------------------------------
(* Route texts.  A text is the sequence of its tokens: a state name is one  *)
(* token, a blank and each character of the arrow are tokens of their own.  *)

\* a style whose stem is "="
DoubleArrowStyle == [stem |-> "=", brackets |-> <<"[", "]">>, separator |-> ",",
                     tip |-> ">"]

\* client_flow.add_arrow_style(stem="-", brackets=("[", "]"), separator=",", tip=">")
ArrowStyle == [stem |-> "-", brackets |-> <<"[", "]">>, separator |-> ",",
               tip |-> ">"]

\* the literal "source --> target" of a route= argument, or the bare name
RouteText(src, dst) ==
  IF dst = "" THEN <<src>> ELSE <<src, " ", "-", "-", ">", " ", dst>>

NodeRoute(node) == [t |-> "node", node |-> node]
EdgeRoute(source, target) == [t |-> "edge", source |-> source, target |-> target]
RouteSyntaxError == [t |-> "error"]

IsName(style, c) ==
  c \notin {" ", style.stem, style.tip, style.separator,
             style.brackets[1], style.brackets[2]}

\* parse_route: blanks are skipped; a single name is a node route; a name,
\* an arrow of stems ended by the tip, and a name are an edge route
parse_route(style, text) ==
  LET T == SelectSeq(text, LAMBDA c : c # " ")
      n == Len(T)
  IN IF n = 1 /\ IsName(style, T[1]) THEN NodeRoute(T[1])
     ELSE IF /\ n >= 4
             /\ IsName(style, T[1]) /\ IsName(style, T[n])
             /\ T[n - 1] = style.tip
             /\ \A i \in 2..(n - 2) : T[i] = style.stem
     THEN EdgeRoute(T[1], T[n])
     ELSE RouteSyntaxError

\* the routes an example declares: its receive routes, its gated senders
\* and its periodic senders
Declared(e) ==
  {[src |-> Handlers(e)[i].src, dst |-> Handlers(e)[i].dst] :
     i \in 1..Len(Handlers(e))}
  \cup {[src |-> SendHandlers(e)[i].src, dst |-> SendHandlers(e)[i].dst] :
          i \in 1..Len(SendHandlers(e))}
  \cup (IF e >= 3 THEN {[src |-> "clock", dst |-> ""]} ELSE {})
  \cup (IF e >= 12 THEN {[src |-> "reputation", dst |-> ""]} ELSE {})

RouteTexts(e) == {RouteText(r.src, r.dst) : r \in Declared(e)}

\* texts that are no route
BadRouteTexts ==
  {<<"register", " ", "contact">>, <<"-", "-", ">", " ", "contact">>,
   <<"register", " ", "-", "-", ">">>, <<>>}

RouteInit ==
  /\ ex \in Examples
  /\ listening = (ex >= 13)
  /\ state = StrV("register")
  /\ relations = EmptyMap
  /\ outside_view = EmptyMap
  /\ contact_list = <<>>
  /\ ban_list = <<>>
  /\ friend_list = <<>>
  /\ to_them_list = <<>>
  /\ decision_cache = [k \in {} |-> "stay"]
  /\ travels = 0
  /\ pc = "route"
  /\ cur \in {PStr(text) : text \in RouteTexts(ex) \cup BadRouteTexts}
  /\ payload = NoPayload
  /\ hookLog = <<>>
  /\ logs = <<>>
  /\ snapshot = NoSnapshot
  /\ uploads = <<>>
  /\ handlerLog = <<>>
  /\ fired = NoEvent
  /\ candidates = NoCands
  /\ senderLog = <<>>
  /\ sent = <<>>
  /\ failures = 0
  /\ pre = [relations |-> EmptyMap, outside_view |-> EmptyMap,
            contact_list |-> <<>>, ban_list |-> <<>>, friend_list |-> <<>>,
            to_them_list |-> <<>>, listening |-> listening]
  /\ nmsgs = 0
  /\ periodic = NoRun
  /\ dl = NoCall
  /\ NoTasks

\* the flow parses a route text
ParseRoute ==
  /\ pc = "route"
  /\ payload' = parse_route(ArrowStyle, cur.s)
  /\ pc' = "parsed"
  /\ UNCHANGED <<ex, listening, state, relations, outside_view, contact_list,
                 ban_list, friend_list, to_them_list, decision_cache, travels,
                 cur, hookLog, logs, snapshot, uploads, handlerLog, fired,
                 candidates, senderLog, sent, failures, pre, nmsgs, periodic,
                 dl>>
  /\ UNCHANGED tasking

RouteNext == ParseRoute

SpecRoute == RouteInit /\ [][RouteNext]_vars

-----------------------------------------------------------------------------
(* The dashboard of example 14.  The callbacks and the refresh run on the   *)
(* event loop's thread; GET /state runs on the HTTP server's thread, which  *)
(* the scheduler of threads can interleave with the loop at any point.      *)

\* the threading lock is taken whatever its state
DashLockIgnored(lock) == TRUE

\* `with _dashboard_lock:` can be entered
DashLockFree(lock) == lock = "free"

\* the rows: per id seen, str(relations.get(id, "")) and
\* str(outside_view.get(id, ""))
Rows(rel, out) ==
  [id \in DOMAIN rel \cup DOMAIN out |->
     [to_me |-> IF id \in DOMAIN rel THEN Str(rel[id]) ELSE "",
      to_them |-> IF id \in DOMAIN out THEN Str(out[id]) ELSE ""]]

\* what a reader would see of the shared state at this instant
Instant(lis, rel, out) == [listening |-> lis, rows |-> Rows(rel, out)]

DashInit ==
  /\ ex = 14
  /\ listening = TRUE
  /\ state = StrV("register")
  /\ relations = EmptyMap
  /\ outside_view = EmptyMap
  /\ contact_list = <<>>
  /\ ban_list = <<>>
  /\ friend_list = <<>>
  /\ to_them_list = <<>>
  /\ decision_cache = [k \in {} |-> "stay"]
  /\ travels = 0
  /\ pc = "dashboard"
  /\ cur = NoPayload
  /\ payload = NoPayload
  /\ hookLog = <<>>
  /\ logs = <<>>
  /\ snapshot = NoSnapshot
  /\ uploads = <<>>
  /\ handlerLog = <<>>
  /\ fired = NoEvent
  /\ candidates = NoCands
  /\ senderLog = <<>>
  /\ sent = <<>>
  /\ failures = 0
  /\ pre = [relations |-> EmptyMap, outside_view |-> EmptyMap,
            contact_list |-> <<>>, ban_list |-> <<>>, friend_list |-> <<>>,
            to_them_list |-> <<>>, listening |-> listening]
  /\ nmsgs = 0
  /\ periodic = NoRun
  /\ dl = NoCall
  /\ NoTasks

\* a callback on the loop writes shared state inside `async with state_lock`:
\* listen --> register, upload_states, download_states (to_me, to_them)
DashWrite ==
  /\ pc = "dashboard"
  /\ dashboard.refresh.at = "idle"
  /\ ~state_lock.held
  /\ \E w \in {"listen_off", "setdefault", "adopt_to_me", "adopt_to_them"} :
       /\ w = "listen_off" => listening
       /\ w # "listen_off" => ~listening
       /\ w \in {"adopt_to_me", "adopt_to_them"} => PeerA \in DOMAIN relations
       /\ listening' = (listening /\ w # "listen_off")
       /\ relations' =
            IF w = "setdefault"
            THEN UploadPeer(ex, PeerA, relations, outside_view).relations
            ELSE IF w = "adopt_to_me" THEN Put(relations, PeerA, NodeV("contact"))
            ELSE relations
       /\ outside_view' =
            IF w = "setdefault"
            THEN UploadPeer(ex, PeerA, relations, outside_view).outside_view
            ELSE IF w = "adopt_to_them" THEN Put(outside_view, PeerA, NodeV("good"))
            ELSE outside_view
  /\ dashboard' = [dashboard EXCEPT
                     !.instants = @ \cup {Instant(listening', relations',
                                                  outside_view')}]
  /\ UNCHANGED <<ex, state, contact_list, ban_list, friend_list, to_them_list,
                 decision_cache, travels, pc, cur, payload, hookLog, logs,
                 snapshot, uploads, handlerLog, fired, candidates, senderLog,
                 sent, failures, pre, nmsgs, periodic, dl>>
  /\ UNCHANGED <<state_lock, at, run, returned, pending, appended, moved,
                 writes, rmw, deciding>>

\* the clock sender takes state_lock and sleeps under it while listening,
\* then releases it
DashClock ==
  /\ pc = "dashboard"
  /\ dashboard.refresh.at = "idle"
  /\ \/ /\ ~state_lock.held /\ listening
        /\ state_lock' = [state_lock EXCEPT !.held = TRUE, !.owner = "clock"]
     \/ /\ state_lock.held
        /\ state_lock' = FreeLock
  /\ UNCHANGED <<ex, listening, state, relations, outside_view, contact_list,
                 ban_list, friend_list, to_them_list, decision_cache, travels,
                 pc, cur, payload, hookLog, logs, snapshot, uploads, handlerLog,
                 fired, candidates, senderLog, sent, failures, pre, nmsgs,
                 periodic, dl>>
  /\ UNCHANGED <<at, run, returned, pending, appended, moved, writes, rmw,
                 dashboard, deciding>>

\* _refresh_dashboard_snapshot, statement by statement: the rows are built,
\* the threading lock is taken, "listening" and "rows" are assigned
DashRefresh ==
  /\ pc = "dashboard"
  /\ LET r == dashboard.refresh IN
     \/ /\ r.at = "idle"
        /\ dashboard' = [dashboard EXCEPT
             !.refresh = [at |-> "rows", rows |-> Rows(relations, outside_view)],
             !.copies = @ \cup {state_lock.held /\ state_lock.owner = "refresh"}]
     \/ /\ r.at = "rows"
        /\ DashLockFree(dashboard.lock)
        /\ dashboard' = [dashboard EXCEPT !.lock = "loop", !.refresh.at = "locked"]
     \/ /\ r.at = "locked"
        /\ dashboard' = [dashboard EXCEPT !.snapshot.listening = listening,
                                          !.refresh.at = "put"]
     \/ /\ r.at = "put"
        /\ dashboard' = [dashboard EXCEPT !.snapshot.rows = r.rows,
                                          !.lock = "free",
                                          !.refresh = [at |-> "idle",
                                                       rows |-> EmptyMap]]
  /\ UNCHANGED <<ex, listening, state, relations, outside_view, contact_list,
                 ban_list, friend_list, to_them_list, decision_cache, travels,
                 pc, cur, payload, hookLog, logs, snapshot, uploads, handlerLog,
                 fired, candidates, senderLog, sent, failures, pre, nmsgs,
                 periodic, dl>>
  /\ UNCHANGED <<state_lock, at, run, returned, pending, appended, moved,
                 writes, rmw, deciding>>

\* Handler.do_GET for /state on the server's thread: the lock is taken,
\* json.dumps reads "listening" and "rows", the payload is served
DashGet ==
  /\ pc = "dashboard"
  /\ LET h == dashboard.http IN
     \/ /\ h.at = "idle"
        /\ DashLockFree(dashboard.lock)
        /\ dashboard' = [dashboard EXCEPT !.lock = "http", !.http.at = "locked"]
     \/ /\ h.at = "locked"
        /\ dashboard' = [dashboard EXCEPT
             !.http = [at |-> "half", listening |-> dashboard.snapshot.listening]]
     \/ /\ h.at = "half"
        /\ dashboard' = [dashboard EXCEPT
             !.served = [listening |-> h.listening,
                         rows |-> dashboard.snapshot.rows],
             !.lock = "free",
             !.http = [at |-> "idle", listening |-> TRUE]]
  /\ UNCHANGED <<ex, listening, state, relations, outside_view, contact_list,
                 ban_list, friend_list, to_them_list, decision_cache, travels,
                 pc, cur, payload, hookLog, logs, snapshot, uploads, handlerLog,
                 fired, candidates, senderLog, sent, failures, pre, nmsgs,
                 periodic, dl>>
  /\ UNCHANGED <<state_lock, at, run, returned, pending, appended, moved,
                 writes, rmw, deciding>>

DashNext ==
  \/ DashWrite
  \/ DashClock
  \/ DashRefresh
  \/ DashGet

SpecDashboard == DashInit /\ [][DashNext]_vars

-----------------------------------------------------------------------------
(* decide_move of example 14 under the event loop.  A call looks its key   *)
(* up in _decision_cache; on a miss it awaits llm_text, and other handler  *)
(* invocations run until the answer is there; then it stores the decision  *)
(* and returns it.                                                         *)

\* the handler invocations that may be inside decide_move at the same time
Callers == {"c1", "c2", "c3"}

\* decide_move calls made in one run
MaxCalls == 3

\* the calls of the two handlers of source register on a "Hello" of a peer
DecideCalls ==
  {[kind |-> k, msg |-> Content(p, None, HELLO)] :
     k \in {"register->contact", "register->ban"}, p \in {PeerA, PeerB}}

IdleCall == [at |-> "idle", key |-> <<>>, after |-> 0]

InFlight == {c \in Callers : deciding.calls[c].at = "llm"}

DecideInit ==
  /\ ex = 14
  /\ listening = FALSE
  /\ state = StrV("register")
  /\ relations = EmptyMap
  /\ outside_view = EmptyMap
  /\ contact_list = <<>>
  /\ ban_list = <<>>
  /\ friend_list = <<>>
  /\ to_them_list = <<>>
  /\ decision_cache = [k \in {} |-> "stay"]
  /\ travels = 0
  /\ pc = "decide"
  /\ cur = NoPayload
  /\ payload = NoPayload
  /\ hookLog = <<>>
  /\ logs = <<>>
  /\ snapshot = NoSnapshot
  /\ uploads = <<>>
  /\ handlerLog = <<>>
  /\ fired = NoEvent
  /\ candidates = NoCands
  /\ senderLog = <<>>
  /\ sent = <<>>
  /\ failures = 0
  /\ pre = [relations |-> EmptyMap, outside_view |-> EmptyMap,
            contact_list |-> <<>>, ban_list |-> <<>>, friend_list |-> <<>>,
            to_them_list |-> <<>>, listening |-> listening]
  /\ nmsgs = 0
  /\ periodic = NoRun
  /\ dl = NoCall
  /\ state_lock = FreeLock
  /\ at = <<>>
  /\ run = NoBatch
  /\ returned = <<>>
  /\ pending = 0
  /\ appended = <<>>
  /\ moved = <<>>
  /\ writes = {}
  /\ rmw = [open |-> <<>>, torn |-> {}]
  /\ dashboard = NoDashboard
  /\ deciding = [calls |-> [c \in Callers |-> IdleCall], log |-> <<>>]

DecideFrame ==
  UNCHANGED <<ex, listening, state, relations, outside_view, contact_list,
              ban_list, friend_list, to_them_list, travels, pc, cur, payload,
              hookLog, logs, snapshot, uploads, handlerLog, fired, candidates,
              senderLog, sent, failures, pre, nmsgs, periodic, dl, state_lock,
              at, run, returned, pending, appended, moved, writes, rmw,
              dashboard>>

\* `if key in _decision_cache: return _decision_cache[key]`
DecideCached ==
  /\ pc = "decide"
  /\ Len(deciding.log) + Cardinality(InFlight) < MaxCalls
  /\ \E c \in Callers, call \in DecideCalls :
       LET key == cache_key(call.kind, call.msg) IN
         /\ deciding.calls[c].at = "idle"
         /\ key \in DOMAIN decision_cache
         /\ deciding' = [deciding EXCEPT
              !.log = Append(@, [key |-> key, decision |-> decision_cache[key],
                                 after |-> Len(deciding.log)])]
  /\ UNCHANGED decision_cache
  /\ DecideFrame

\* the key is not cached: the call awaits llm_text
DecideAsk ==
  /\ pc = "decide"
  /\ Len(deciding.log) + Cardinality(InFlight) < MaxCalls
  /\ \E c \in Callers, call \in DecideCalls :
       LET key == cache_key(call.kind, call.msg) IN
         /\ deciding.calls[c].at = "idle"
         /\ key \notin DOMAIN decision_cache
         /\ deciding' = [deciding EXCEPT
              !.calls[c] = [at |-> "llm", key |-> key,
                            after |-> Len(deciding.log)]]
  /\ UNCHANGED decision_cache
  /\ DecideFrame

\* llm_text has answered (the model's token, or the fallback's when the
\* text is neither move nor stay): `_decision_cache[key] = txt; return txt`
DecideAnswer ==
  /\ pc = "decide"
  /\ \E c \in InFlight, txt \in {"move", "stay"} :
       LET call == deciding.calls[c] IN
         /\ decision_cache' =
              [x \in DOMAIN decision_cache \cup {call.key} |->
                 IF x = call.key THEN txt ELSE decision_cache[x]]
         /\ deciding' = [deciding EXCEPT
              !.calls[c] = IdleCall,
              !.log = Append(@, [key |-> call.key, decision |-> txt,
                                 after |-> call.after])]
  /\ DecideFrame

DecideNext ==
  \/ DecideCached
  \/ DecideAsk
  \/ DecideAnswer

SpecDecide == DecideInit /\ [][DecideNext]_vars

-----------------------------------------------------------------------------
(* The RECEIVE pipeline of examples 13-14 for two envelopes in flight.     *)
(* Each envelope is a task of the event loop: validate, check_sender, then *)
(* the dispatch, which while the agent listens invokes listen --> register. *)
(* The engine may run another task between two stages.                     *)

PipeTasks == {"r1", "r2"}

PipeEnvelopes ==
  {Envelope(PStr(TRAVEL)),
   Envelope(Content(PeerA, None, HELLO)),
   Envelope(Content(Mallory, None, HELLO)),
   Envelope(Content(None, None, HELLO))}

\* what validate returned for the envelope of task t
Validated(t) ==
  hookLog[CHOOSE i \in 1..Len(hookLog) :
            hookLog[i].task = t /\ hookLog[i].fn = "validate"].out

PipeInit ==
  /\ ex \in 13..14
  /\ listening = TRUE
  /\ state = StrV("register")
  /\ relations = EmptyMap
  /\ outside_view = EmptyMap
  /\ contact_list = <<>>
  /\ ban_list = <<>>
  /\ friend_list = <<>>
  /\ to_them_list = <<>>
  /\ decision_cache = [k \in {} |-> "stay"]
  /\ travels = 0
  /\ pc = "pipeline"
  /\ cur = NoPayload
  /\ payload = NoPayload
  /\ hookLog = <<>>
  /\ logs = <<>>
  /\ snapshot = NoSnapshot
  /\ uploads = <<>>
  /\ handlerLog = <<>>
  /\ fired = NoEvent
  /\ candidates = NoCands
  /\ senderLog = <<>>
  /\ sent = <<>>
  /\ failures = 0
  /\ pre = [relations |-> EmptyMap, outside_view |-> EmptyMap,
            contact_list |-> <<>>, ban_list |-> <<>>, friend_list |-> <<>>,
            to_them_list |-> <<>>, listening |-> listening]
  /\ nmsgs = 0
  /\ periodic = NoRun
  /\ dl = NoCall
  /\ state_lock = FreeLock
  /\ at = [t \in PipeTasks |-> "arrived"]
  /\ run = NoBatch
  /\ returned = <<>>
  /\ pending = 0
  /\ appended = <<>>
  /\ moved = <<>>
  /\ writes = {}
  /\ rmw = [open |-> <<>>, torn |-> {}]
  /\ dashboard = NoDashboard
  /\ deciding = NoDeciding

PipeFrame ==
  UNCHANGED <<ex, state, relations, outside_view, contact_list, ban_list,
              friend_list, to_them_list, decision_cache, pc, cur, payload,
              logs, snapshot, uploads, handlerLog, fired, candidates,
              senderLog, sent, pre, nmsgs, periodic, dl, state_lock, run,
              returned, pending, appended, writes, rmw, dashboard, deciding>>

\* the first RECEIVE stage runs on an envelope the transport delivered
PipeValidate ==
  /\ pc = "pipeline"
  /\ \E t \in PipeTasks, env \in PipeEnvelopes :
       /\ at[t] = "arrived"
       /\ LET r == validate(ex, env, listening) IN
            /\ hookLog' = Append(hookLog,
                 [task |-> t, fn |-> "validate", in |-> env, out |-> r.ret,
                  raised |-> r.raised, listening |-> listening])
            /\ failures' = IF r.raised THEN failures + 1 ELSE failures
            /\ at' = [at EXCEPT ![t] = IF r.ret = NoPayload THEN "dropped"
                                       ELSE "validated"]
  /\ UNCHANGED <<listening, travels, moved>>
  /\ PipeFrame

\* the second stage runs on what validate returned
PipeCheckSender ==
  /\ pc = "pipeline"
  /\ \E t \in PipeTasks :
       /\ at[t] = "validated"
       /\ LET r == check_sender(ex, Validated(t), listening) IN
            /\ hookLog' = Append(hookLog,
                 [task |-> t, fn |-> "check_sender", in |-> Validated(t),
                  out |-> r.ret, raised |-> r.raised, listening |-> listening])
            /\ failures' = IF r.raised THEN failures + 1 ELSE failures
            /\ at' = [at EXCEPT ![t] = IF r.ret = NoPayload THEN "dropped"
                                       ELSE "checked"]
  /\ UNCHANGED <<listening, travels, moved>>
  /\ PipeFrame

\* the dispatch of a payload that passed the hooks: while the agent listens
\* the state is "listen" and listen --> register is invoked; the handler is
\* taken up to its return (its await of travel_to lies before the write of
\* `listening`, so a stage that runs meanwhile sees the flag still set)
PipeHandler ==
  /\ pc = "pipeline"
  /\ \E t \in PipeTasks :
       /\ at[t] = "checked"
       /\ LET p == hookLog[CHOOSE i \in 1..Len(hookLog) :
                     hookLog[i].task = t /\ hookLog[i].fn = "check_sender"].out
              r == IF listening THEN on_listen_register(ex, p, Globals, <<>>)
                   ELSE Returns(Globals, NoEvent)
          IN /\ listening' = r.M.listening
             /\ travels' = r.M.travels
             /\ moved' = IF r.ev = Move("ok") THEN Append(moved, t) ELSE moved
       /\ at' = [at EXCEPT ![t] = "done"]
  /\ UNCHANGED <<hookLog, failures>>
  /\ PipeFrame

PipeNext ==
  \/ PipeValidate
  \/ PipeCheckSender
  \/ PipeHandler

SpecPipeline == PipeInit /\ [][PipeNext]_vars

-----------------------------------------------------------------------------
(* The contact_list outbox under the event loop.  The callbacks are tasks  *)
(* of one asyncio loop: a task runs until it suspends, and it suspends at  *)
(* an await of a sleep or of an external call, at the return to the engine *)
(* and at `async with state_lock` when the lock is held or waited for.     *)
(* An asyncio.Lock that is free and has no waiter is taken without         *)
(* suspending; waiters are served first come, first served.                *)

Ins(op, to) == [op |-> op, to |-> to]

\* <do> without taking the lock
SectionUnlocked(do) == <<Ins("skip", 0), Ins(do, 0), Ins("skip", 0)>>

\* async with state_lock: <do>
Section(do) == <<Ins("acquire", 0), Ins(do, 0), Ins("release", 0)>>

\* one inbound "Hello": upload_states, register --> contact, download_states
MessageTask(e) ==
  LET upload == (IF e >= 10 THEN Section("setdefault") ELSE <<>>)
                \o (IF e >= 12 THEN Section("push_states") ELSE <<>>)
                \o <<Ins("yield", 0)>>
      handler == (IF e >= 11 THEN Section("append") ELSE <<>>)
                 \o <<Ins("yield", 0)>>
      download == <<Ins("compare", 0)>> \o Section("adopt")
                  \o (IF e >= 12 THEN Section("push_states") ELSE <<>>)
                  \o <<Ins("yield", 0)>>
      body == upload \o handler \o download
              \o (IF e >= 11 THEN <<Ins("trigger", 0)>> ELSE <<>>)
  IN <<Ins("end_if_listening", Len(body) + 2)>> \o body \o <<Ins("end", 0)>>

\* one inbound "/travel": listen --> register reads `listening`, awaits
\* travel_to, sets listening = False under the lock and returns Move(ok)
TravelTask ==
  <<Ins("end_unless_listening", 7), Ins("travel_to", 0)>>
  \o Section("listen_off") \o <<Ins("move_ok", 0), Ins("end", 0)>>

\* the clock sender if its lock section never released state_lock
ClockTaskKeepsLock(e) ==
  <<Ins("acquire", 0), Ins("sleep_if_listening", 3), Ins("skip", 0),
    Ins("restart", 0)>>

\* the clock sender: in examples 13-14 it sleeps under the lock while the
\* agent listens
ClockTask(e) ==
  IF e >= 13
  THEN <<Ins("acquire", 0), Ins("sleep_if_listening", 3), Ins("release", 0),
         Ins("restart", 0)>>
  ELSE Section("push_states") \o <<Ins("restart", 0)>>

\* the reputation sender, up to its second lock section
ReputationTask(e) ==
  IF e >= 13
  THEN <<Ins("acquire", 0), Ins("sleep_if_listening", 9), Ins("release", 0),
         Ins("yield", 0)>>
       \o Section("push_states")
       \o <<Ins("restart", 0), Ins("release", 0), Ins("restart", 0)>>
  ELSE Section("push_states") \o <<Ins("restart", 0)>>

\* send_from_register_to_contact: try: return [...] finally: clear under
\* the lock; example 14 awaits generate_status_message first
SenderTask(e) ==
  <<Ins("gate", 0)>>
  \o (IF e = 14 THEN <<Ins("yield", 0), Ins("generate", 5)>> ELSE <<>>)
  \o <<Ins("read", 0)>> \o Section("clear") \o <<Ins("return", 0)>>

TaskNames == {"m1", "m2", "travel", "travel2", "clock", "reputation", "sender"}

\* the tasks of one run; the second control token is delivered in example 13
\* (the handler of example 14 is the same code)
Tasks(e) ==
  {"m1", "m2", "clock"}
  \cup (IF e >= 11 THEN {"sender"} ELSE {})
  \cup (IF e >= 12 THEN {"reputation"} ELSE {})
  \cup (IF e >= 13 THEN {"travel"} ELSE {})
  \cup (IF e = 13 THEN {"travel2"} ELSE {})

Program(e, t) ==
  CASE t = "m1" -> MessageTask(e)
    [] t = "m2" -> MessageTask(e)
    [] t = "travel" -> TravelTask
    [] t = "travel2" -> TravelTask
    [] t = "clock" -> ClockTask(e)
    [] t = "reputation" -> ReputationTask(e)
    [] OTHER -> SenderTask(e)

\* msg["from"] of the message a task handles
Sender(t) == IF t = "m1" THEN PeerA ELSE PeerB

\* the ways a run of the gated sender can fail: building the batch raises
\* (example 14, in generate_status_message), or the emission fails
SendFailures(e) == IF e = 14 THEN {"none", "build", "emit"} ELSE {"none", "emit"}

\* the list left as it is when the batch could not be built
ClearOnSuccess(box, failure) == IF failure = "build" THEN box ELSE <<>>

\* finally: async with state_lock: contact_list = []
ClearOutbox(box, failure) == <<>>

\* the shared variables an instruction assigns: upload_states fills the
\* maps, the handlers append, download_states adopts, the senders clear
Written(e, op) ==
  CASE op = "setdefault" -> IF e >= 12 THEN {"relations", "outside_view"}
                            ELSE {"relations"}
    [] op = "append" -> {"contact_list"}
    [] op = "adopt" -> IF e = 9 THEN {"state"}
                       ELSE IF e >= 12 THEN {"relations", "outside_view"}
                       ELSE {"relations"}
    [] op = "listen_off" -> {"listening"}
    [] op = "clear" -> {"contact_list"}
    [] OTHER -> {}

\* task t writes what `op` assigns, holding the lock or not
Write(s, t, e, op) ==
  [s EXCEPT !.writes = @ \cup {[var |-> v,
                                locked |-> s.lock.held /\ s.lock.owner = t] :
                               v \in Written(e, op)}]

\* the map or list an instruction reads or writes
Accessed(op) ==
  CASE op \in {"setdefault", "compare", "adopt"} -> "relations"
    [] op \in {"append", "read", "clear"} -> "contact_list"
    [] OTHER -> "none"

\* task t runs `op`: a read-modify-write of another task on the same map or
\* list that has read and not yet written is cut into; a comparison or a
\* read of the outbox opens one for t, the adoption or the clearing ends it
Touch(s, t, e, op) ==
  LET r == Accessed(op) IN
  IF r = "none" THEN s
  ELSE [s EXCEPT
          !.rmw.torn = @ \cup {[var |-> r, task |-> u] :
                                 u \in {u \in Tasks(e) \ {t} : s.rmw.open[u] = r}},
          !.rmw.open[t] = IF op \in {"compare", "read"} THEN r
                          ELSE IF op \in {"adopt", "clear"} THEN "none"
                          ELSE @]

Waiting(s, t) == \E i \in 1..Len(s.lock.waiters) : s.lock.waiters[i] = t

\* the loop can resume t: a waiter is resumed when the lock was released and
\* it is the first in line
Runnable(s, t, e) ==
  IF Waiting(s, t) THEN ~s.lock.held /\ Head(s.lock.waiters) = t
  ELSE LET ins == Program(e, t)[s.at[t]] IN
       /\ ins.op # "end"
       /\ ins.op = "gate" => s.pending > 0

\* t runs from its instruction up to its next suspension; f is the failure
\* this run of the sender meets, if it gets there
RECURSIVE Exec(_, _, _, _)
RECURSIVE Continue(_, _, _, _)
Exec(s, t, e, f) ==
  LET i == s.at[t]
      ins == Program(e, t)[i]
      next == [Touch(Write(s, t, e, ins.op), t, e, ins.op) EXCEPT !.at[t] = i + 1]
  IN
  CASE ins.op = "acquire" ->
         IF Waiting(s, t)
         THEN Continue([next EXCEPT !.lock = [held |-> TRUE, owner |-> t,
                                          waiters |-> Tail(s.lock.waiters)]],
                   t, e, f)
         ELSE IF ~s.lock.held /\ s.lock.waiters = <<>>
         THEN Continue([next EXCEPT !.lock.held = TRUE, !.lock.owner = t], t, e, f)
         ELSE [s EXCEPT !.lock.waiters = Append(@, t)]
    [] ins.op = "release" ->
         Continue([next EXCEPT !.lock.held = FALSE, !.lock.owner = "none"], t, e, f)
    [] ins.op = "append" ->
         Continue([next EXCEPT !.list = Append(@, Sender(t)),
                           !.appended = Append(@, Sender(t))], t, e, f)
    [] ins.op = "clear" ->
         Continue([next EXCEPT !.list = ClearOutbox(@, s.run.failure)], t, e, f)
    [] ins.op = "listen_off" -> Continue([next EXCEPT !.listening = FALSE], t, e, f)
    [] ins.op = "travel_to" -> [next EXCEPT !.travels = @ + 1]
    [] ins.op = "move_ok" -> Continue([next EXCEPT !.moved = Append(@, t)], t, e, f)
    [] ins.op = "gate" ->
         Continue([next EXCEPT !.pending = @ - 1, !.run.start = s.list,
                           !.run.seen = Len(s.appended)], t, e, f)
    [] ins.op = "trigger" -> Continue([next EXCEPT !.pending = @ + 1], t, e, f)
    [] ins.op = "generate" ->
         IF f = "build"
         THEN Continue([s EXCEPT !.at[t] = ins.to, !.run.failure = "build"], t, e, f)
         ELSE Continue(next, t, e, f)
    [] ins.op = "read" ->
         Continue([next EXCEPT !.run.batch = DrainBatch(e, s.list, "contact")], t, e, f)
    [] ins.op = "return" ->
         [s EXCEPT !.at[t] = 1, !.run = NoBatch,
                   !.returned =
                      Append(@, [start |-> s.run.start, batch |-> s.run.batch,
                                 failure |-> IF s.run.failure = "build" THEN "build"
                                             ELSE IF f = "emit" THEN "emit"
                                             ELSE "none",
                                 after |-> s.list,
                                 raced |-> Len(s.appended) # s.run.seen])]
    [] ins.op = "end_if_listening" ->
         IF s.listening THEN [s EXCEPT !.at[t] = ins.to] ELSE Continue(next, t, e, f)
    [] ins.op = "end_unless_listening" ->
         IF ~s.listening THEN [s EXCEPT !.at[t] = ins.to] ELSE Continue(next, t, e, f)
    [] ins.op = "sleep_if_listening" ->
         IF s.listening THEN [s EXCEPT !.at[t] = ins.to] ELSE Continue(next, t, e, f)
    [] ins.op = "yield" -> next
    [] ins.op = "restart" -> [s EXCEPT !.at[t] = 1]
    [] ins.op = "end" -> s
    [] OTHER -> Continue(next, t, e, f)      \* setdefault, push_states, compare,
                                         \* adopt

\* t runs on from s: the state reached so far is a value, which each
\* instruction reads
Continue(s0, t, e, f) == CHOOSE r \in {Exec(s, t, e, f) : s \in {s0}} : TRUE

\* the state the tasks share
Shared ==
  [lock |-> state_lock, at |-> at, list |-> contact_list,
   listening |-> listening, run |-> run, returned |-> returned,
   pending |-> pending, appended |-> appended,
   moved |-> moved, travels |-> travels,
   writes |-> writes,
   rmw |-> rmw]

\* the variables of the receive cycle, which the tasks below do not use
cycle == <<ex, state, relations, outside_view, ban_list, friend_list,
           to_them_list, decision_cache, pc, cur, payload, hookLog,
           logs, snapshot, uploads, handlerLog, fired, candidates, senderLog,
           sent, failures, pre, nmsgs, periodic, dl>>

OutboxInit ==
  /\ ex \in 9..14
  /\ listening = (ex >= 13)
  /\ state = StrV("register")
  /\ relations = EmptyMap
  /\ outside_view = EmptyMap
  /\ contact_list = <<>>
  /\ ban_list = <<>>
  /\ friend_list = <<>>
  /\ to_them_list = <<>>
  /\ decision_cache = [k \in {} |-> "stay"]
  /\ travels = 0
  /\ pc = "tasks"
  /\ cur = NoPayload
  /\ payload = NoPayload
  /\ hookLog = <<>>
  /\ logs = <<>>
  /\ snapshot = NoSnapshot
  /\ uploads = <<>>
  /\ handlerLog = <<>>
  /\ fired = NoEvent
  /\ candidates = NoCands
  /\ senderLog = <<>>
  /\ sent = <<>>
  /\ failures = 0
  /\ pre = [relations |-> EmptyMap, outside_view |-> EmptyMap,
            contact_list |-> <<>>, ban_list |-> <<>>, friend_list |-> <<>>,
            to_them_list |-> <<>>, listening |-> listening]
  /\ nmsgs = 0
  /\ periodic = NoRun
  /\ dl = NoCall
  /\ state_lock = FreeLock
  /\ at = [t \in TaskNames |-> 1]
  /\ run = NoBatch
  /\ returned = <<>>
  /\ pending = 0
  /\ appended = <<>>
  /\ moved = <<>>
  /\ writes = {}
  /\ rmw = [open |-> [t \in TaskNames |-> "none"], torn |-> {}]
  /\ dashboard = NoDashboard
  /\ deciding = NoDeciding

\* the loop resumes task t
Resume(t, f) ==
  /\ pc = "tasks"
  /\ t \in Tasks(ex)
  /\ Runnable(Shared, t, ex)
  /\ \E s \in {Exec(Shared, t, ex, f)} :
       /\ state_lock' = s.lock
       /\ at' = s.at
       /\ contact_list' = s.list
       /\ listening' = s.listening
       /\ run' = s.run
       /\ returned' = s.returned
       /\ pending' = s.pending
       /\ appended' = s.appended
       /\ moved' = s.moved
       /\ travels' = s.travels
       /\ writes' = s.writes
       /\ rmw' = s.rmw
       /\ dashboard' = dashboard
       /\ deciding' = deciding
  /\ UNCHANGED cycle

\* a callback of an inbound "Hello" runs
MessageStep ==
  /\ ex >= 9
  /\ \E t \in {"m1", "m2"} : Resume(t, "none")

\* listen --> register runs for an inbound "/travel"
TravelStep ==
  /\ ex >= 13
  /\ \E t \in {"travel", "travel2"} : Resume(t, "none")

ClockStep ==
  /\ ex >= 9
  /\ Resume("clock", "none")

ReputationStep ==
  /\ ex >= 12
  /\ Resume("reputation", "none")

\* the gated sender of register --> contact runs
SenderStep ==
  /\ ex >= 11
  /\ \E f \in SendFailures(ex) : Resume("sender", f)

OutboxNext ==
  \/ MessageStep
  \/ TravelStep
  \/ ClockStep
  \/ ReputationStep
  \/ SenderStep

SpecOutbox == OutboxInit /\ [][OutboxNext]_vars

\* examples 13-14 while the agent listens: the control tokens and the two
\* periodic senders, the tasks that use state_lock before the mode switch
ExitInit == OutboxInit /\ ex \in 13..14

ExitNext ==
  \/ TravelStep
  \/ ClockStep
  \/ ReputationStep

\* the asyncio loop runs every task that is ready: a callback whose await
\* has completed, a sender whose sleep has elapsed, and the first waiter of
\* state_lock once the lock is released
ExitFairness ==
  /\ WF_vars(TravelStep)
  /\ WF_vars(ClockStep)
  /\ WF_vars(ReputationStep)

SpecExit == ExitInit /\ [][ExitNext]_vars /\ ExitFairness

-----------------------------------------------------------------------------
(* Properties of the RECEIVE hook chain                                    *)

Count(seq, x) == Cardinality({i \in 1..Len(seq) : seq[i] = x})

\* cur is an envelope dict with both keys whose content is a dict
WellFormed(env) ==
  /\ env.t = "env"
  /\ {"remote_addr", "content"} \subseteq env.keys
  /\ env.content.t = "dict"

\* cur is the control token in its envelope
IsTravelEnvelope(env) ==
  /\ env.t = "env"
  /\ {"remote_addr", "content"} \subseteq env.keys
  /\ env.content = PStr(TRAVEL)

Dropped == pc = "idle" /\ payload = NoPayload /\ handlerLog = <<>> /\ uploads = <<>>
           /\ snapshot = NoSnapshot

\* C1: in examples 6-14 the RECEIVE stages run in ascending priority,
\* validate (0) on the envelope and then check_sender (1) on what validate
\* returned; when validate returns nothing check_sender is not run and no
\* receive handler is invoked for that message.
C1_HookChainOrder ==
  (ex >= 6 /\ nmsgs > 0) =>
    /\ Len(hookLog) <= 2
    /\ \A i \in 1..Len(hookLog) :
         hookLog[i].fn = (IF i = 1 THEN "validate" ELSE "check_sender")
    /\ Len(hookLog) >= 1 => hookLog[1].in = cur
    /\ Len(hookLog) >= 2 =>
         hookLog[1].out # NoPayload /\ hookLog[2].in = hookLog[1].out
    /\ (Len(hookLog) >= 1 /\ hookLog[1].out = NoPayload) =>
         Len(hookLog) = 1 /\ Dropped
    /\ (pc # "hooks" /\ handlerLog # <<>>) => Len(hookLog) = 2

C1_Witness ==
  /\ ex >= 6 /\ pc = "idle" /\ nmsgs = 2
  /\ WellFormed(cur) /\ HasKey(cur.content, "from") /\ cur.content.d["from"] = PeerA
  /\ hookLog = <<[fn |-> "validate", in |-> cur, out |-> NoPayload, raised |-> FALSE]>>
  /\ handlerLog = <<>>

\* the content of cur names a recipient that is neither None nor the agent
Misaddressed(e, env) ==
  /\ WellFormed(env)
  /\ HasKey(env.content, "to")
  /\ env.content.d["to"] \notin {None, AGENT_ID(e)}

\* C2: in examples 7-14 a message whose content.to is neither None nor
\* AGENT_ID is dropped by validate and no receive handler is invoked for it,
\* whether the agent listens or not and whatever its states are.
C2_MisaddressedDropped ==
  (ex >= 7 /\ nmsgs > 0 /\ Misaddressed(ex, cur)) =>
    /\ pc \in {"hooks", "idle"}
    /\ handlerLog = <<>>
    /\ pc = "idle" =>
         /\ Dropped
         /\ Len(hookLog) = 1 /\ hookLog[1].fn = "validate"
         /\ hookLog[1].out = NoPayload

C2_Witness ==
  /\ ex >= 10 /\ ~listening /\ pc = "idle"
  /\ Misaddressed(ex, cur) /\ PyGet(cur.content, "from", None) = PeerA
  /\ relations # EmptyMap
  /\ Dropped

\* content.from matches the allowlist of the example: membership in 6-9, a
\* prefix in 10-14
Allowlisted(e, content) ==
  IF e <= 9 THEN ExactMatch(e, content) ELSE PrefixMatch(e, content)

\* the check_sender stage ran for cur on a dict whose from is not allowlisted
RejectedSender ==
  /\ ex >= 6 /\ nmsgs > 0 /\ Len(hookLog) = 2
  /\ hookLog[2].in.t = "dict"
  /\ ~Allowlisted(ex, hookLog[2].in)

\* C3: a message that passes validate and whose content.from does not match
\* the allowlist is dropped by check_sender, reaches no receive handler, and
\* has exactly one rejection line written to the log.
C3_RejectedLoggedOnce ==
  RejectedSender =>
    /\ hookLog[2].out = NoPayload
    /\ Dropped
    /\ Count(logs, "reject") = 1

\* cur is not an envelope dict with both keys, or its content is not a dict,
\* or the content has no from
Malformed(env) == ~WellFormed(env) \/ ~HasKey(env.content, "from")

\* C4: in examples 5-14 a malformed envelope (not a dict with remote_addr and
\* content, content not a dict, or content without from) is dropped before
\* dispatch and leaves relations, outside_view and the outboxes as they were;
\* the control token received while listening is the one exception.
C4_MalformedDropped ==
  (ex >= 5 /\ nmsgs > 0 /\ Malformed(cur)
     /\ ~(ex >= 13 /\ IsTravelEnvelope(cur) /\ pre.listening)) =>
    /\ pc \in {"hooks", "idle"}
    /\ handlerLog = <<>> /\ uploads = <<>> /\ snapshot = NoSnapshot
    /\ pc = "idle" => Dropped /\ Len(hookLog) = 1
    /\ Persist = pre

C4_Witness ==
  /\ ex >= 12 /\ pc = "idle" /\ Dropped
  /\ cur = Envelope(PStr(Text("not-a-dict")))
  /\ relations # EmptyMap /\ to_them_list # <<>>
  /\ Persist = pre
-----------------------------------------------------------------------------
(* Properties of upload, dispatch, download and the gated sends            *)

\* the key under which the snapshot holds the agent's state for peer x
ToMeKey(e, x) == IF e <= 11 THEN x ELSE TO_ME \o x

\* the payload is a validated Hello of peer From(payload), whose snapshot
\* state is register
HelloInRegister ==
  /\ ex \in 11..13 /\ nmsgs > 0
  /\ payload.t = "dict" /\ HasKey(payload, "from") /\ HasKey(payload, "message")
  /\ payload.d["message"] = HELLO
  /\ snapshot.t = "map"
  /\ ToMeKey(ex, From(payload)) \in DOMAIN snapshot.m
  /\ Str(snapshot.m[ToMeKey(ex, From(payload))]) = "register"

\* C5: in examples 11-13, when the state stored for peer X is register and
\* the validated message {message: "Hello", from: X} is dispatched, the
\* register --> contact handler returns Move(ok), the state stored for X
\* after the download is contact, the gated register --> contact sender runs
\* and emits one "You are my contact" addressed to X, and contact_list is
\* empty afterwards.
C5_HelloMakesContact ==
  HelloInRegister =>
    LET X == From(payload) IN
    /\ pc \in {"download", "send", "idle"} =>
         /\ \E i \in 1..Len(handlerLog) :
              handlerLog[i] = [key |-> ToMeKey(ex, X), src |-> "register",
                               dst |-> "contact", ev |-> Move("ok"),
                               raised |-> FALSE]
         /\ fired = Move("ok")
    /\ pc \in {"send", "idle"} =>
         X \in DOMAIN relations /\ Str(relations[X]) = "contact"
    /\ Len(senderLog) >= 1 =>
         /\ senderLog[1].dst = "contact" /\ senderLog[1].ran
         /\ senderLog[1].out =
              <<PDict([k \in {"to", "message", "from"} |->
                         IF k = "to" THEN X
                         ELSE IF k = "message" THEN MY_CONTACT
                         ELSE AGENT_ID(ex)])>>
         /\ contact_list = <<>>

C5_Witness ==
  /\ HelloInRegister /\ ex = 12 /\ pc = "idle" /\ Len(senderLog) = 3
  /\ From(payload) = PeerB
  /\ candidates.m[1].states = <<NodeV("register"), NodeV("contact")>>
  /\ Str(relations[PeerB]) = "contact"
  /\ contact_list = <<>>

\* a dispatch happened in which no edge handler can have moved: any message
\* in examples 2-7, a message other than the two register phrases in 8
OnlyNodeAnswers ==
  /\ nmsgs > 0 /\ handlerLog # <<>>
  /\ \/ ex <= 7
     \/ /\ ex = 8 /\ HasItem(payload, "message")
        /\ payload.d["message"] \notin {HELLO, DISLIKE}

\* C6: when every eligible edge handler returns nothing and the node handler
\* returns Test(ok), no transition occurs: the state is unchanged, the fired
\* event is Test(ok), and no failure is recorded.
C6_TestOnlyNoTransition ==
  OnlyNodeAnswers =>
    /\ \A i \in 1..Len(handlerLog) :
         ~handlerLog[i].raised /\ handlerLog[i].ev \in {NoEvent, Test("ok")}
    /\ \E i \in 1..Len(handlerLog) : handlerLog[i].ev = Test("ok")
    /\ fired = Test("ok")
    /\ candidates = FlatCands(<<NodeV("register")>>)
    /\ state = StrV("register")
    /\ failures = 0

C6_Witness ==
  /\ OnlyNodeAnswers /\ ex = 8 /\ pc = "idle"
  /\ payload.d["message"] = LIKE
  /\ Len(handlerLog) = 3
  /\ fired = Test("ok")

\* C7: in examples 11-14 a gated sender (on_actions = {MOVE}, on_triggers =
\* {ok}) runs only when the event fired by the dispatch is a MOVE with
\* trigger ok; after a Test(ok) alone, or no event, it is skipped and sends
\* nothing.
C7_GateOnMoveOk ==
  \A i \in 1..Len(senderLog) :
    /\ senderLog[i].ran <=> (fired.action = "MOVE" /\ fired.trigger = "ok")
    /\ ~senderLog[i].ran => senderLog[i].out = <<>>

C7_Witness ==
  /\ ex >= 11 /\ pc = "idle" /\ Len(senderLog) = 3
  /\ fired = Test("ok")
  /\ \A i \in 1..3 : ~senderLog[i].ran
  /\ sent = <<>>

\* the first upload of this cycle was for a peer that was not yet known
FreshPeerUploaded ==
  /\ ex >= 10 /\ nmsgs > 0 /\ Len(uploads) >= 1
  /\ payload.t = "dict" /\ ~Falsy(From(payload))
  /\ From(payload) \notin DOMAIN pre.relations
  /\ ~(ex >= 13 /\ listening)

\* C8: the first upload_states for a peer X that is not yet a key of
\* relations stores relations[X] = "register" and returns {X: "register"} in
\* examples 10-11; in examples 12-14, when not listening, it also stores
\* outside_view[X] = "neutral" and returns {"to_me:X": "register",
\* "to_them:X": "neutral"}.
C8_FirstUploadDefaults ==
  FreshPeerUploaded =>
    LET X == From(payload)
        u == uploads[1] IN
    /\ ~u.raised
    /\ u.relations = Put(pre.relations, X, StrV("register"))
    /\ ex <= 11 =>
         /\ u.ret = Keyed([k \in {X} |-> StrV("register")])
         /\ u.outside_view = pre.outside_view
    /\ ex >= 12 =>
         /\ X \notin DOMAIN pre.outside_view
         /\ u.outside_view = Put(pre.outside_view, X, StrV("neutral"))
         /\ u.ret = Keyed([k \in {TO_ME \o X, TO_THEM \o X} |->
                             IF k = TO_ME \o X THEN StrV("register")
                             ELSE StrV("neutral")])

C8_Witness ==
  /\ FreshPeerUploaded /\ ex >= 12 /\ Len(uploads) = 1
  /\ From(payload) = PeerB
  /\ PeerA \in DOMAIN pre.relations
  /\ relations[PeerB] = StrV("register") /\ outside_view[PeerB] = StrV("neutral")

\* C9: a peer key is never removed from relations or outside_view, and an
\* upload_states for a peer already known leaves every stored state as it
\* was.
C9_MonotonicPresence ==
  [][/\ DOMAIN relations \subseteq DOMAIN relations'
     /\ DOMAIN outside_view \subseteq DOMAIN outside_view'
     /\ Len(uploads') = Len(uploads) + 1 =>
          /\ \A p \in DOMAIN relations : relations'[p] = relations[p]
          /\ \A p \in DOMAIN outside_view : outside_view'[p] = outside_view[p]]_vars

C9_Witness ==
  /\ ex >= 12 /\ pc = "dispatch" /\ Len(uploads) >= 1
  /\ payload.t = "dict" /\ From(payload) \in DOMAIN pre.relations
  /\ Str(pre.relations[From(payload)]) = "contact"
  /\ Str(relations[From(payload)]) = "contact"
  /\ DOMAIN relations = DOMAIN pre.relations

\* C10: upload_states called twice in succession for the same message, with
\* no download and no mode change in between, returns the same snapshot the
\* second time and leaves relations and outside_view as the first call left
\* them.
C10_UploadIdempotent ==
  Len(uploads) >= 2 =>
    /\ uploads[2].ret = uploads[1].ret
    /\ uploads[2].raised = uploads[1].raised
    /\ uploads[2].relations = uploads[1].relations
    /\ uploads[2].outside_view = uploads[1].outside_view
    /\ relations = uploads[1].relations
    /\ outside_view = uploads[1].outside_view

C10_Witness ==
  /\ Len(uploads) = 2 /\ ex >= 12 /\ ~listening
  /\ payload.t = "dict" /\ From(payload) \notin DOMAIN pre.relations
  /\ uploads[1].relations # pre.relations
  /\ uploads[1].ret.t = "map"

-----------------------------------------------------------------------------
(* The download callback                                                   *)

\* a download_states call has just been applied
Called == dl # NoCall
Flat == Called /\ dl.cands.t = "list"
CallKeys == IF Flat THEN {} ELSE {dl.cands.m[i].key : i \in DOMAIN dl.cands.m}
CallStates(k) ==
  dl.cands.m[CHOOSE i \in DOMAIN dl.cands.m : dl.cands.m[i].key = k].states

\* what the rule asks for: the first element of C whose name differs from v
Expected(C, v) ==
  IF \E i \in DOMAIN C : C[i].name # v.name
  THEN C[CHOOSE i \in DOMAIN C :
           /\ C[i].name # v.name
           /\ \A j \in 1..(i - 1) : C[j].name = v.name]
  ELSE v

\* the call of example 9 is a list for the one stored state; the call of
\* examples 10-11 is keyed, and every key has a stored value
KeyedStoredCall ==
  /\ Called /\ ~Flat /\ ex \in 10..11
  /\ CallKeys \subseteq DOMAIN dl.relations

\* C11: after download_states, the value stored for each key of the call is
\* the first candidate whose string form differs from the value stored
\* before, or that value when no candidate differs; the values of the keys
\* that are not in the call are the ones stored before
C11_AdoptionRule ==
  /\ (Called /\ ex = 9 /\ Flat) =>
        /\ ~dl.raised
        /\ state = Expected(dl.cands.l, dl.state)
  /\ KeyedStoredCall =>
        /\ ~dl.raised
        /\ DOMAIN relations = DOMAIN dl.relations
        /\ \A k \in DOMAIN relations :
             relations[k] = IF k \in CallKeys
                            THEN Expected(CallStates(k), dl.relations[k])
                            ELSE dl.relations[k]

\* a call of two keys, one adopting the first of two differing candidates
\* and a third peer left alone
C11_Witness ==
  /\ KeyedStoredCall
  /\ Len(dl.cands.m) = 2
  /\ \E k \in CallKeys :
       /\ CallStates(k) = <<NodeV("ban"), NodeV("contact")>>
       /\ dl.relations[k].name = "register"
       /\ relations[k] = NodeV("ban")
  /\ \E k \in DOMAIN relations : k \notin CallKeys

\* C12: in examples 13-14, when the agent is not listening, a
\* download_states call with a flat list is taken as the one key "default":
\* it completes without raising and leaves relations and outside_view as
\* they were
C12_FlatListTolerated ==
  (Called /\ Flat /\ ex >= 13 /\ ~listening) =>
     /\ ~dl.raised
     /\ relations = dl.relations
     /\ outside_view = dl.outside_view

\* a flat list of states that differ from the ones stored for a known peer
C12_Witness ==
  /\ Called /\ Flat /\ ex >= 13 /\ ~listening
  /\ dl.cands.l = <<NodeV("ban"), NodeV("contact")>>
  /\ PeerA \in DOMAIN relations
  /\ relations[PeerA].name = "register"

\* a key of neither channel
Unrecognised(k) == k = <<>> \/ k[1] \notin {"to_me:", "to_them:"}

\* a keyed call of examples 12-14, not listening, that holds a key of
\* neither channel; its other keys are channel keys of the stored peer PeerA
CallWithUnrecognised ==
  /\ Called /\ ~Flat /\ ex >= 12 /\ ~listening
  /\ \E k \in CallKeys : Unrecognised(k)
  /\ \A k \in CallKeys : Unrecognised(k) \/ k \in {TO_ME \o PeerA, TO_THEM \o PeerA}
  /\ PeerA \in DOMAIN dl.relations \cap DOMAIN dl.outside_view

\* the map a channel's key of PeerA asks for
ExpectedMap(before, k) ==
  [p \in DOMAIN before |->
     IF p = PeerA /\ k \in CallKeys THEN Expected(CallStates(k), before[p])
     ELSE before[p]]

\* C13: in examples 12-14 a download key that starts with neither "to_me:"
\* nor "to_them:" is ignored: the call does not raise, the key changes
\* neither map, and the other keys of the call are processed as usual
C13_UnknownKeyIgnored ==
  CallWithUnrecognised =>
     /\ ~dl.raised
     /\ relations = ExpectedMap(dl.relations, TO_ME \o PeerA)
     /\ outside_view = ExpectedMap(dl.outside_view, TO_THEM \o PeerA)

\* an unknown-channel key that names PeerA comes first and leaves PeerA's
\* entries alone; the "to_me:" key after it is adopted
C13_Witness ==
  /\ CallWithUnrecognised
  /\ Len(dl.cands.m) = 2
  /\ dl.cands.m[1].key = OTHER_CHANNEL \o PeerA
  /\ dl.cands.m[1].states = <<NodeV("ban"), NodeV("contact")>>
  /\ dl.cands.m[2].key = TO_ME \o PeerA
  /\ dl.relations[PeerA].name = "register"
  /\ relations[PeerA] = NodeV("contact")
  /\ outside_view = dl.outside_view

\* a Hello of peer p is let through by validate and check_sender
PassesHooks(e, p) ==
  LET v == validate(e, Envelope(Content(p, None, HELLO)), FALSE) IN
    /\ ~v.raised /\ v.ret # NoPayload
    /\ LET c == check_sender(e, v.ret, FALSE) IN ~c.raised /\ c.ret # NoPayload

\* upload_states built the keys of peer p, and the call hands key k of that
\* snapshot back
RoundTrip(p, k) ==
  /\ Called /\ ~Flat /\ ex >= 12 /\ ~listening
  /\ PassesHooks(ex, p)
  /\ payload = Content(p, None, HELLO)
  /\ snapshot.t = "map" /\ k \in DOMAIN snapshot.m
  /\ CallKeys = {k}

\* the map with entry p moved to the first differing candidate of the call
Landed(before, p) ==
  [q \in DOMAIN before |->
     IF q = p THEN Expected(dl.cands.m[1].states, before[q]) ELSE before[q]]

\* C14: a key "to_me:"+p (resp. "to_them:"+p) built by upload_states for a
\* peer p that passes the receive hooks is split by download_states into
\* its channel and p itself: the update lands on entry p of relations
\* (resp. outside_view), also when p holds the text of a channel prefix
C14_KeysRoundTrip ==
  \A p \in SyncPeers(ex) :
    /\ RoundTrip(p, TO_ME \o p) =>
          /\ ~dl.raised
          /\ relations = Landed(dl.relations, p)
          /\ outside_view = dl.outside_view
    /\ RoundTrip(p, TO_THEM \o p) =>
          /\ ~dl.raised
          /\ outside_view = Landed(dl.outside_view, p)
          /\ relations = dl.relations

-----------------------------------------------------------------------------
(* The periodic senders and the listening mode                             *)

\* the sender of the route has just run
Ran(route) == periodic.route = route

\* C17: to_them_list (examples 12-14) is a one-shot outbox: once the
\* reputation sender has emitted its entries the list is empty, so no entry
\* is emitted by a second send cycle
C17_ReputationOneShot ==
  (ex >= 12 /\ Ran("reputation") /\ ~periodic.listening) => to_them_list = <<>>

\* a "/travel" that arrived after the agent had left the listening mode
LateTravel ==
  ex >= 13 /\ nmsgs > 0 /\ IsTravelEnvelope(cur) /\ ~pre.listening

\* C18: in examples 13-14 listening starts true; once listen --> register
\* has set it false it is never true again, and a "/travel" that arrives
\* afterwards is dropped by validate: no handler runs, no event fires and
\* travel_to is not called again
C18_ModeGateMonotone ==
  /\ (ex >= 13 => listening)
  /\ [](LateTravel =>
          /\ pc \in {"hooks", "idle"}
          /\ handlerLog = <<>> /\ fired = NoEvent /\ uploads = <<>>
          /\ pc = "idle" =>
               /\ Dropped
               /\ Len(hookLog) = 1 /\ hookLog[1].fn = "validate"
               /\ Persist = pre)
  /\ [][ex >= 13 =>
          /\ ~listening => (~listening' /\ travels' = travels)
          /\ travels' # travels => (listening /\ travels' = travels + 1)]_vars

\* the agent travelled on a first "/travel" and dropped a second one
C18_Witness ==
  /\ LateTravel /\ pc = "idle" /\ nmsgs = 2
  /\ travels = 1 /\ ~listening
  /\ Dropped

\* C19: in examples 13-14 a clock or reputation run that observes
\* listening = true returns no payload, and a run that returns a payload
\* does so in a state where listening is false
C19_SilentWhileListening ==
  (ex >= 13 /\ (Ran("clock") \/ Ran("reputation"))) =>
     /\ periodic.listening => (periodic.out = <<>> /\ sent = <<>>)
     /\ periodic.out # <<>> => (~periodic.listening /\ ~listening)

\* the clock sender ran while the agent was listening and sent nothing
C19_Witness ==
  /\ ex >= 13 /\ Ran("clock")
  /\ periodic.listening /\ listening
  /\ periodic.out = <<>> /\ sent = <<>>

\* the message in hand arrived while the agent was listening and is not
\* the control token
HeardWhileListening ==
  ex >= 13 /\ nmsgs > 0 /\ pre.listening /\ ~IsTravelEnvelope(cur)

\* C20: in examples 13-14, while the agent is listening, an inbound message
\* other than "/travel" has no effect on the protocol state: upload_states
\* returns the single state "listen", download_states updates nothing,
\* relations, outside_view and the outbox lists stay empty and listening
\* stays true
C20_ListeningFrame ==
  /\ (ex >= 13 /\ listening) =>
        /\ relations = EmptyMap /\ outside_view = EmptyMap
        /\ contact_list = <<>> /\ ban_list = <<>> /\ friend_list = <<>>
        /\ to_them_list = <<>>
        /\ travels = 0
        /\ state = StrV("register")
  /\ HeardWhileListening =>
        /\ listening
        /\ Persist = pre
        /\ fired = NoEvent
        /\ \A i \in 1..Len(uploads) :
             ~uploads[i].raised /\ uploads[i].ret = Single(StrV("listen"))
        /\ snapshot \in {NoSnapshot, Single(StrV("listen"))}

\* a Hello of an allowlisted peer went through upload, dispatch and download
\* while the agent was listening
C20_Witness ==
  /\ HeardWhileListening /\ pc = "idle"
  /\ WellFormed(cur) /\ cur.content = Content(PeerA, None, HELLO)
  /\ Len(hookLog) = 2 /\ handlerLog # <<>>
  /\ snapshot = Single(StrV("listen"))
  /\ listening /\ relations = EmptyMap

-----------------------------------------------------------------------------
(* The one-shot outboxes                                                   *)

Ids(seq) == {seq[i] : i \in 1..Len(seq)}

\* the peers a batch addresses
Addressed(batch) == {batch[i].d["to"] : i \in 1..Len(batch)}

\* the batches peer id is in: those returned and the one being built
Copies(id) ==
  Cardinality({i \in 1..Len(returned) : id \in Addressed(returned[i].batch)})
  + (IF id \in Addressed(run.batch) THEN 1 ELSE 0)

NoSendFailure ==
  /\ run.failure = "none"
  /\ \A i \in 1..Len(returned) : returned[i].failure = "none"

\* C16: under any interleaving of the receive handlers that append to
\* contact_list and the gated sender that drains it, every appended entry is
\* in exactly one returned batch: it is never in two, and an entry that is
\* in no batch yet is still in the list
C16_ExactlyOneBatch ==
  NoSendFailure =>
    \A id \in Ids(appended) :
      /\ Copies(id) <= 1
      /\ Copies(id) = 0 => id \in Ids(contact_list)

-----------------------------------------------------------------------------
(* The exit from listening mode under concurrent control tokens            *)

\* C21: examples 13-14: when two "/travel" tokens are handled concurrently
\* while the agent listens, the exit from listening mode is performed once:
\* travel_to is called at most once and at most one invocation of
\* listen --> register returns Move(ok).
C21_ExitOnce ==
  ex >= 13 => /\ travels <= 1
              /\ Len(moved) <= 1

-----------------------------------------------------------------------------
(* The lock discipline of the shared state                                  *)

\* C22: examples 9-14: every write to the shared protocol state (the global
\* state, relations, outside_view, the outbox list, the listening flag) is
\* made by a task that holds state_lock at the moment of the write.
C22_WritesUnderLock ==
  \A w \in writes : w.locked

\* every kind of shared variable has been written, the lock being contended
C22_Witness ==
  /\ ex = 13
  /\ {w.var : w \in writes} =
       {"relations", "outside_view", "contact_list", "listening"}
  /\ state_lock.waiters # <<>>

\* C23: every read-modify-write of a relation map or outbox list is atomic
\* with respect to the other tasks: between the comparison and the adoption
\* in download_states, and between the read of the outbox and its clearing
\* in a gated sender, no other task accesses the same map or list.
C23_RmwAtomic ==
  rmw.torn = {}

\* the tasks of listen --> register, which perform the one-time mode switch
ModeSwitch == {"travel", "travel2"}

\* C27: no hook stage, handler or sender is suspended (in asyncio.sleep,
\* travel_to or a model call) while it holds state_lock, except the task that
\* performs the check-then-disable of the one-time mode switch.  Every state
\* of the event loop is one in which all tasks are suspended.
C27_NoLockAcrossSuspension ==
  state_lock.held => state_lock.owner \in ModeSwitch

-----------------------------------------------------------------------------
(* Failures while a message is processed                                    *)

\* an edge handler of examples 8-13 was invoked on a content that has no
\* "message" key: its read of msg["message"] raises
EdgeOnMissingMessage ==
  /\ ex \in 8..13
  /\ pc \in {"download", "send", "idle"}
  /\ payload.t = "dict"
  /\ ~HasItem(payload, "message")
  /\ \E i \in 1..Len(handlerLog) :
       handlerLog[i].dst # "" /\ handlerLog[i].src # "listen"

\* a RECEIVE stage raised on the current message
StageRaised == \E i \in 1..Len(hookLog) : hookLog[i].raised

\* every entry of `before` is in `now` with the value it had
Kept(before, now) ==
  \A k \in DOMAIN before : k \in DOMAIN now /\ now[k] = before[k]

\* C24 as stated: when a hook stage or a receive handler raises on a message,
\* relations, outside_view and the mode flag are what they were when the
\* message arrived.
C24_NothingChanged ==
  (EdgeOnMissingMessage \/ StageRaised) =>
     /\ relations = pre.relations
     /\ outside_view = pre.outside_view
     /\ listening = pre.listening

\* C24: when a hook stage or a receive handler raises on a message, no event
\* is fired for it, no gated sender runs, no entry of relations or
\* outside_view changes its value and the mode flag stays; the only change
\* is the default entry upload_states stored for a first-time sender before
\* the handler ran.  The receive loop is back at idle and takes the next
\* envelope, and the clock sender can run.
C24_FailureIsNoEvent ==
  (EdgeOnMissingMessage \/ StageRaised) =>
     /\ fired = NoEvent
     /\ \A i \in 1..Len(senderLog) : ~senderLog[i].ran
     /\ Kept(pre.relations, relations)
     /\ Kept(pre.outside_view, outside_view)
     /\ \A k \in DOMAIN relations \ DOMAIN pre.relations :
          relations[k] = DefaultRelation /\ payload.d["from"] = k
     /\ \A k \in DOMAIN outside_view \ DOMAIN pre.outside_view :
          outside_view[k] = DefaultOutside /\ payload.d["from"] = k
     /\ listening = pre.listening
     /\ StageRaised => pc = "idle" /\ relations = pre.relations
                                   /\ outside_view = pre.outside_view
     /\ pc = "idle" => /\ nmsgs < MaxMsgs => ENABLED Deliver
                       /\ ENABLED Clock

\* a handler raised on the first message and the cycle is over, the second
\* message can come
C24_Witness ==
  /\ EdgeOnMissingMessage
  /\ AnyRaised(handlerLog)
  /\ pc = "idle"
  /\ nmsgs = 1
  /\ DOMAIN relations # DOMAIN pre.relations

-----------------------------------------------------------------------------
(* The SEND hook                                                            *)

\* C25: every payload that leaves sign (examples 4-14) is a dict whose `from`
\* is the agent's own AGENT_ID, whatever `from` the handler supplied; a text t
\* becomes {message: t, from: AGENT_ID}; a dict keeps its other fields; a
\* payload that is neither text nor dict is dropped and not sent.
C25_SignStampsFrom ==
  pc \in {"wire", "received"} =>
    IF cur.t = "str"
    THEN sent = <<PDict([k \in {"message", "from"} |->
                          IF k = "message" THEN cur.s ELSE AGENT_ID(ex)])>>
    ELSE IF cur.t = "dict"
    THEN /\ Len(sent) = 1
         /\ sent[1] = payload
         /\ sent[1].t = "dict"
         /\ DOMAIN sent[1].d = DOMAIN cur.d \cup {"from"}
         /\ sent[1].d["from"] = AGENT_ID(ex)
         /\ \A k \in DOMAIN cur.d \ {"from"} : sent[1].d[k] = cur.d[k]
    ELSE sent = <<>> /\ payload = NoPayload

\* a dict that came with someone else's `from` and with a `to` was signed
C25_Witness ==
  /\ pc = "wire"
  /\ cur.t = "dict"
  /\ HasItem(cur, "from") /\ cur.d["from"] = Mallory
  /\ HasItem(cur, "to") /\ HasItem(cur, "message")
  /\ sent[1].d["from"] = AGENT_ID(ex)

-----------------------------------------------------------------------------
(* Route texts                                                              *)

\* C26: for every declared edge (source, target), parsing its route text as
\* written with the configured arrow style gives the edge route
\* (source, target) again, and a bare state name parses to the node route of
\* that state.
C26_RouteRoundTrip ==
  pc = "parsed" =>
    \A r \in Declared(ex) :
       cur.s = RouteText(r.src, r.dst) =>
          payload = IF r.dst = "" THEN NodeRoute(r.src)
                    ELSE EdgeRoute(r.src, r.dst)

\* the edge good --> very_good was parsed
C26_Witness ==
  /\ pc = "parsed"
  /\ [src |-> "good", dst |-> "very_good"] \in Declared(ex)
  /\ cur.s = <<"good", " ", "-", "-", ">", " ", "very_good">>
  /\ payload = EdgeRoute("good", "very_good")

-----------------------------------------------------------------------------
(* The dashboard snapshot of example 14                                     *)

\* C28 as stated: every copy of relations, outside_view and listening for
\* the dashboard is taken by a task that holds state_lock, and what /state
\* serves is the shared state of one instant.
C28_CopyUnderStateLock ==
  /\ \A c \in dashboard.copies : c
  /\ dashboard.served \in dashboard.instants

\* C28: what GET /state serves is a point-in-time copy of relations,
\* outside_view and the listening flag: its rows and its flag are those of
\* one and the same instant of the shared state, never a mix of values from
\* before and after an update.  The same holds of the published snapshot
\* whenever no refresh is writing it.
C28_NoTornView ==
  /\ dashboard.served \in dashboard.instants
  /\ dashboard.refresh.at \in {"idle", "rows"} =>
        dashboard.snapshot \in dashboard.instants

\* a GET served the published snapshot while a refresh has built newer rows
\* that it has not published yet
C28_Witness ==
  /\ dashboard.http.at = "idle"
  /\ dashboard.served = [listening |-> FALSE, rows |-> EmptyMap]
  /\ dashboard.refresh.at = "rows"
  /\ dashboard.refresh.rows # EmptyMap
  /\ dashboard.snapshot = dashboard.served

-----------------------------------------------------------------------------
(* Signed payloads at a receiver                                            *)

\* C29: validate of examples 7-14 drops a content dict that has no `to` key:
\* a content dict passes only with `to` None or the receiver's AGENT_ID, so
\* the {message, from} that sign makes of a bare text in examples 4-6 is
\* never accepted by an agent of examples 7-14.
C29_NoToDropped ==
  pc = "received" =>
    LET h == hookLog[1]
        c == h.in.content
    IN h.receiver >= 7 =>
         /\ ~HasItem(c, "to") => h.out = NoPayload
         /\ h.out # NoPayload =>
               HasItem(c, "to") /\ c.d["to"] \in {None, AGENT_ID(h.receiver)}
         /\ (ex \in 4..6 /\ cur.t = "str") => h.out = NoPayload

\* the "hello" of example 4's clock sender, signed, was dropped by an agent
\* of example 7
C29_Witness ==
  /\ pc = "received"
  /\ ex = 4
  /\ cur = PStr(Text("hello"))
  /\ sent = <<PDict([k \in {"message", "from"} |->
                       IF k = "message" THEN Text("hello") ELSE AGENT_ID(4)])>>
  /\ hookLog[1].receiver = 7
  /\ hookLog[1].out = NoPayload

-----------------------------------------------------------------------------
(* The shape of what reaches the edge handlers                              *)

\* C30: in examples 8-13 every message that passed both RECEIVE hooks and
\* was handed to an edge handler has the fields from, to and message: no
\* handler fails on msg["message"] or msg["from"].
C30_ValidatedShape ==
  (ex \in 8..13 /\ pc \in {"download", "send", "idle"}
     /\ \E i \in 1..Len(handlerLog) :
           handlerLog[i].dst # "" /\ handlerLog[i].src # "listen") =>
    /\ HasItem(payload, "from")
    /\ HasItem(payload, "to")
    /\ HasItem(payload, "message")
    /\ ~AnyRaised(handlerLog)

-----------------------------------------------------------------------------
(* C39: examples 2-8 never assign `state`                                   *)

-----------------------------------------------------------------------------
(* C34: what download_states does to the value stored for a key            *)

\* the value v stored for a key before a call with candidates C, and the
\* value w stored after it: w is v exactly when no candidate's string form
\* differs from v's (an empty C included); two distinct candidates always
\* change the value; after a non-empty C the value is one of the candidates
AdoptionLaw(C, v, w) ==
  /\ (w = v) <=> (\A i \in DOMAIN C : C[i].name = v.name)
  /\ (\E i, j \in DOMAIN C : C[i].name # C[j].name) => w.name # v.name
  /\ (C # <<>>) => \E i \in DOMAIN C : C[i].name = w.name

\* the entry a key of the call stands for: the peer's entry of relations in
\* examples 10-11; the entry of the key's channel in examples 12-14, for a
\* peer id that holds no channel prefix text
Slots ==
  IF ex <= 11
  THEN {[key |-> p, map |-> "relations", id |-> p] : p \in SyncPeers(ex)}
  ELSE {[key |-> TO_ME \o PeerA, map |-> "relations", id |-> PeerA],
        [key |-> TO_THEM \o PeerA, map |-> "outside_view", id |-> PeerA]}

SlotOf(k) == CHOOSE s \in Slots : s.key = k

\* a keyed call all of whose keys stand for a stored entry
StoredKeysCall ==
  /\ Called /\ ~Flat /\ ex >= 10 /\ ~listening
  /\ \A k \in CallKeys :
       /\ \E s \in Slots : s.key = k
       /\ SlotOf(k).id \in DOMAIN dl[SlotOf(k).map]

\* C34: download_states leaves the value stored for a key unchanged exactly
\* when the candidate list is empty or every candidate equals that value;
\* a list of two distinct states changes the value on every call, so the
\* same download repeated alternates; after a call with a non-empty list the
\* stored value is a member of the list
C34_AdoptionAlternates ==
  /\ (Called /\ Flat /\ ex = 9) => AdoptionLaw(dl.cands.l, dl.state, state)
  /\ StoredKeysCall =>
       \A k \in CallKeys :
          AdoptionLaw(CallStates(k), dl[SlotOf(k).map][SlotOf(k).id],
                      IF SlotOf(k).map = "relations"
                      THEN relations[SlotOf(k).id]
                      ELSE outside_view[SlotOf(k).id])

\* the same two candidates handed over again: the call before adopted
\* contact, this one goes back to register
C34_Witness ==
  /\ StoredKeysCall
  /\ \E k \in CallKeys :
       /\ SlotOf(k).map = "relations"
       /\ CallStates(k) = <<NodeV("contact"), NodeV("register")>>
       /\ dl.relations[SlotOf(k).id] = NodeV("contact")
       /\ relations[SlotOf(k).id] = NodeV("register")

-----------------------------------------------------------------------------
(* C35: a download key that names a peer without an entry                  *)

\* the key names a peer that has no entry in the key's map before the call
NamesUnstoredPeer(k) ==
  IF ex <= 11 THEN k \in SyncPeers(ex) /\ k \notin DOMAIN dl.relations
  ELSE \/ k = TO_ME \o PeerA /\ PeerA \notin DOMAIN dl.relations
       \/ k = TO_THEM \o PeerA /\ PeerA \notin DOMAIN dl.outside_view

\* C35: a download_states call of examples 10-14 that holds a key naming a
\* peer with no entry yet does not raise
C35_UnknownPeerTolerated ==
  (/\ Called /\ ~Flat /\ ex >= 10 /\ ~listening
   /\ \E k \in CallKeys : NamesUnstoredPeer(k))
  => ~dl.raised

-----------------------------------------------------------------------------
(* C33: the peers of relations and of outside_view                          *)

\* C33: in examples 12-14 relations and outside_view have the same peer ids
\* as keys in every reachable state, whatever upload_states and
\* download_states calls were made
C33_SameKeys ==
  ex \in 12..14 => DOMAIN relations = DOMAIN outside_view

-----------------------------------------------------------------------------
(* C31: the to_me state of a peer moves along the declared edges only      *)

\* the declared edges of the to_me graph with the phrase that takes them
DeclaredStep(old, new, text) ==
  \/ old = "register" /\ new = "contact" /\ text = HELLO
  \/ old = "register" /\ new = "ban" /\ text = DISLIKE
  \/ old = "contact" /\ new = "friend" /\ text = LIKE

\* one step of the agent in examples 9-13: the stored state moves along a
\* declared edge or stays; a new entry starts as "register"
ToMeStep ==
  ex \in 9..13 =>
    /\ (state'.name # state.name) =>
         DeclaredStep(state.name, state'.name, PyGet(payload, "message", None))
    /\ \A p \in DOMAIN relations' :
         IF p \in DOMAIN relations
         THEN (relations'[p].name # relations[p].name) =>
                /\ DeclaredStep(relations[p].name, relations'[p].name,
                                PyGet(payload, "message", None))
                /\ PyGet(payload, "from", None) = p
         ELSE relations'[p].name = "register"
    /\ DOMAIN relations \subseteq DOMAIN relations'

-----------------------------------------------------------------------------
(* C36: who is sent a status notification                                  *)

\* C36: in examples 11-14 every id a gated sender finds in its list when it
\* drains it belongs to a peer whose stored state moved along the sender's
\* edge: the peer is in the edge's target state when the notification of
\* that edge is sent to it
C36_NotifiedOnlyIfMoved ==
  ex \in 11..14 =>
    \A i \in 1..Len(senderLog) :
      \A j \in 1..Len(senderLog[i].out) :
        LET id == senderLog[i].out[j].d["to"] IN
          /\ id \in DOMAIN relations
          /\ relations[id].name = senderLog[i].dst

-----------------------------------------------------------------------------
(* C37: decide_move per cache key                                          *)

\* C37: once decide_move has returned a decision for a cache key, every
\* call with that key made after that return gives the same decision, also
\* when calls for the key were in flight together
C37_StablePerKey ==
  \A i, j \in 1..Len(deciding.log) :
    (/\ deciding.log[j].after >= i
     /\ deciding.log[j].key = deciding.log[i].key)
    => deciding.log[j].decision = deciding.log[i].decision

-----------------------------------------------------------------------------
(* C38: what validate lets through and check_sender                        *)

\* C38: in examples 13-14 check_sender never raises on a payload validate
\* let through, whatever runs between the two stages
C38_CheckSenderNeverRaises ==
  \A i \in 1..Len(hookLog) :
    hookLog[i].fn = "check_sender" => ~hookLog[i].raised

\* listen --> register met `listening` true for its control token and is in
\* travel_to or in line for state_lock
Exiting(t) == t \in Tasks(ex) /\ at[t] = 3

\* listen --> register set listening = False and returned Move(ok)
Exited(t) == ~listening /\ \E i \in 1..Len(moved) : moved[i] = t

\* C32: in examples 13-14, a control token received while listening leads,
\* once travel_to returns, to listening = False and to the move from listen
\* to register: the handler's wait for state_lock ends, although the clock
\* and reputation senders keep taking the lock and sleep while they hold it
\* (every ready task is run, and the lock serves its waiters first in, first
\* out).
C32_ExitCompletes ==
  \A t \in ModeSwitch : (ex \in 13..14 /\ Exiting(t)) ~> Exited(t)

\* the handler waits in line for state_lock, which a sender holds in its
\* sleep, while another sender waits behind it
C32_Witness ==
  /\ ex \in 13..14
  /\ Exiting("travel")
  /\ state_lock.held
  /\ state_lock.owner \in {"clock", "reputation"}
  /\ Len(state_lock.waiters) >= 2
  /\ Head(state_lock.waiters) = "travel"

====
